---- MODULE Spec2Model ----
(***************************************************************************)
(* Carrier workflow dispatch, statement pipeline and job orchestrator of   *)
(* the carrier-logins service, as one job's state machine.                 *)
(*                                                                         *)
(* processJobAsync is the current one of server.ts (Sentry capture, fixed   *)
(* failure reason); executeWorkflow, identifyCarrier and runWorkflow are   *)
(* those of services/workflow-manager.ts, which read job.login_url.  Every *)
(* action is one resumption of the job: the code from one settled await to *)
(* the next await or to the return.                                        *)
(*                                                                         *)
(* JavaScript strings are TLA+ strings (Len, \o and SubSeq work on them);  *)
(* `undefined` interpolated into a template literal or passed to           *)
(* `new URL` is the string "undefined", as in JavaScript.  An optional     *)
(* field is a sequence of zero or one elements.                            *)
(***************************************************************************)
EXTENDS Integers, Sequences, FiniteSets, TLC

(***************************************************************************)
(* Bounds of the model.                                                    *)
(***************************************************************************)
\* longest statement list a carrier routine returns
MaxStatements == 2

(***************************************************************************)
(* String helpers, after the String.prototype methods of the same name.  *)
(***************************************************************************)
Upper == "ABCDEFGHIJKLMNOPQRSTUVWXYZ"

Lower == "abcdefghijklmnopqrstuvwxyz"

\* the lower-case letter of every upper-case letter
LowerOf ==
  [c \in {SubSeq(Upper, i, i) : i \in 1..26} |->
     LET i == CHOOSE j \in 1..26 : SubSeq(Upper, j, j) = c
     IN  SubSeq(Lower, i, i)]

LowerChar(c) == IF c \in DOMAIN LowerOf THEN LowerOf[c] ELSE c

RECURSIVE toLowerCase(_)
toLowerCase(s) ==
  IF Len(s) = 0 THEN ""
  ELSE LowerChar(SubSeq(s, 1, 1)) \o toLowerCase(SubSeq(s, 2, Len(s)))

includes(s, kw) ==
  \E i \in 1..(Len(s) - Len(kw) + 1) : SubSeq(s, i, i + Len(kw) - 1) = kw

startsWith(s, p) == Len(s) >= Len(p) /\ SubSeq(s, 1, Len(p)) = p

endsWith(s, p) == Len(s) >= Len(p) /\ SubSeq(s, Len(s) - Len(p) + 1, Len(s)) = p

\* index of the first occurrence of the one-character string c in s, 0 if none
indexOf(s, c) ==
  IF \E i \in 1..Len(s) : SubSeq(s, i, i) = c
  THEN CHOOSE i \in 1..Len(s) :
         /\ SubSeq(s, i, i) = c
         /\ \A j \in 1..(i - 1) : SubSeq(s, j, j) # c
  ELSE 0

RECURSIVE split(_, _)
split(s, c) ==
  LET i == indexOf(s, c)
  IN  IF i = 0 THEN <<s>>
      ELSE <<SubSeq(s, 1, i - 1)>> \o split(SubSeq(s, i + 1, Len(s)), c)

(***************************************************************************)
(* new URL(s): the WHATWG parser restricted to http(s) URLs without        *)
(* userinfo.  ok = FALSE is the TypeError the constructor throws.          *)
(***************************************************************************)
SchemeOf(s) ==
  LET head == toLowerCase(SubSeq(s, 1, IF Len(s) < 8 THEN Len(s) ELSE 8))
  IN  IF startsWith(head, "https://") THEN "https://"
      ELSE IF startsWith(head, "http://") THEN "http://"
      ELSE ""

\* index of the first "/", "?" or "#" of s, 0 if none: where the authority
\* (or the path) ends
DelimiterIndex(s, delimiters) ==
  IF \E i \in 1..Len(s) : SubSeq(s, i, i) \in delimiters
  THEN CHOOSE i \in 1..Len(s) :
         /\ SubSeq(s, i, i) \in delimiters
         /\ \A j \in 1..(i - 1) : SubSeq(s, j, j) \notin delimiters
  ELSE 0

\* the value of a string of decimal digits
RECURSIVE PortValue(_)
PortValue(port) ==
  IF Len(port) = 0 THEN 0
  ELSE PortValue(SubSeq(port, 1, Len(port) - 1)) * 10
         + indexOf("0123456789", SubSeq(port, Len(port), Len(port))) - 1

\* the port of an authority: empty, or decimal digits of a value up to 65535
ValidPort(port) ==
  /\ \A i \in 1..Len(port) : indexOf("0123456789", SubSeq(port, i, i)) # 0
  /\ PortValue(port) <= 65535

\* the parts of "scheme://host:port/path?query#fragment"
AuthorityOf(rest, slash) == IF slash = 0 THEN rest ELSE SubSeq(rest, 1, slash - 1)

TailOf(rest, slash) == IF slash = 0 THEN "" ELSE SubSeq(rest, slash, Len(rest))

HostOf(auth, colon) == IF colon = 0 THEN auth ELSE SubSeq(auth, 1, colon - 1)

PortOf(auth, colon) == IF colon = 0 THEN "" ELSE SubSeq(auth, colon + 1, Len(auth))

PathOf(tail, query) == IF query = 0 THEN tail ELSE SubSeq(tail, 1, query - 1)

\* the URL object, or the TypeError of the constructor as ok = FALSE
URLOfParts(scheme, host, port, path) ==
  IF scheme = "" \/ Len(host) = 0 \/ ~ValidPort(port)
  THEN [ok |-> FALSE, hostname |-> "", pathname |-> ""]
  ELSE [ok |-> TRUE, hostname |-> toLowerCase(host),
        pathname |-> IF path = "" THEN "/" ELSE path]

URLOfAuthority(scheme, auth, colon, tail) ==
  URLOfParts(scheme, HostOf(auth, colon), PortOf(auth, colon),
             PathOf(tail, DelimiterIndex(tail, {"?", "#"})))

URLOfRest(scheme, rest, slash) ==
  URLOfAuthority(scheme, AuthorityOf(rest, slash),
                 indexOf(AuthorityOf(rest, slash), ":"), TailOf(rest, slash))

URLOfScheme(scheme, rest) == URLOfRest(scheme, rest, DelimiterIndex(rest, {"/", "?", "#"}))

URL(s) == URLOfScheme(SchemeOf(s), SubSeq(s, Len(SchemeOf(s)) + 1, Len(s)))

(***************************************************************************)
(* Carrier identifier (workflow-manager).                                  *)
(***************************************************************************)
\* a slug built from the first two labels of the hostname
extractReverseDomainSlugFirstLabels(hostname) ==
  LET parts == split(hostname, ".")
  IN  IF Len(parts) < 2
      THEN hostname
      ELSE parts[2] \o "_" \o parts[1]

extractReverseDomainSlug(hostname) ==
  LET parts == split(hostname, ".")
  IN  IF Len(parts) < 2
      THEN hostname
      ELSE parts[Len(parts)] \o "_" \o parts[Len(parts) - 1]

\* a mapping that accepts every derived slug as a carrier
getCanonicalCarrierSlugAny(slug) == slug

getCanonicalCarrierSlug(slug) ==
  CASE slug = "net_abacus" -> "net_abacus"
    [] slug \in {"com_advantage", "com_advantagepartners"} -> "com_advantagepartners"
    [] slug = "com_amerisafe" -> "com_amerisafe"
    [] OTHER -> "unknown"

\* an identifier whose parse failure is not caught
identifyCarrierNoCatch(loginUrl) ==
  LET url == URL(loginUrl)
  IN  IF ~url.ok THEN "TypeError: Invalid URL"
      ELSE getCanonicalCarrierSlug(extractReverseDomainSlug(toLowerCase(url.hostname)))

identifyCarrier(loginUrl) ==
  LET url == URL(loginUrl)
  IN  IF ~url.ok THEN "unknown"
      ELSE getCanonicalCarrierSlug(extractReverseDomainSlug(toLowerCase(url.hostname)))

\* the slugs executeWorkflow's switch has a case for
ImplementedSlugs == {"net_abacus", "com_advantagepartners", "com_amerisafe"}

(***************************************************************************)
(* Failure-reason taxonomy (admin API client).                             *)
(***************************************************************************)
FailureReasons ==
  {"invalid_credentials", "requires_mfa", "carrier_unavailable",
   "missing_instruction", "password_change"}

\* a classifier that compares the message as it is written
mapErrorToFailureReasonCaseSensitive(errorMessage) ==
  LET lowerError == errorMessage
  IN  CASE includes(lowerError, "invalid credentials")
             \/ includes(lowerError, "login failed") -> "invalid_credentials"
        [] includes(lowerError, "mfa")
             \/ includes(lowerError, "two-factor") -> "requires_mfa"
        [] includes(lowerError, "unavailable") \/ includes(lowerError, "timeout")
             \/ includes(lowerError, "network") -> "carrier_unavailable"
        [] includes(lowerError, "unknown carrier")
             \/ includes(lowerError, "script not found") -> "missing_instruction"
        [] includes(lowerError, "password expired")
             \/ includes(lowerError, "must change password") -> "password_change"
        [] OTHER -> "carrier_unavailable"

mapErrorToFailureReason(errorMessage) ==
  LET lowerError == toLowerCase(errorMessage)
  IN  CASE includes(lowerError, "invalid credentials")
             \/ includes(lowerError, "login failed") -> "invalid_credentials"
        [] includes(lowerError, "mfa")
             \/ includes(lowerError, "two-factor") -> "requires_mfa"
        [] includes(lowerError, "unavailable") \/ includes(lowerError, "timeout")
             \/ includes(lowerError, "network") -> "carrier_unavailable"
        [] includes(lowerError, "unknown carrier")
             \/ includes(lowerError, "script not found") -> "missing_instruction"
        [] includes(lowerError, "password expired")
             \/ includes(lowerError, "must change password") -> "password_change"
        [] OTHER -> "carrier_unavailable"

(***************************************************************************)
(* Statement filter.  Date(s) is new Date(s) for the ISO form YYYY-MM-DD;   *)
(* DateIn adds the form MM/DD/YYYY.  Any other text of the model's inputs  *)
(* is an Invalid Date (NaN), and every comparison with NaN is false.       *)
(***************************************************************************)
DigitOf(c) == indexOf("0123456789", c) - 1

NumberOf(s) ==
  IF \A i \in 1..Len(s) : DigitOf(SubSeq(s, i, i)) >= 0
  THEN [ok |-> TRUE,
        n  |-> LET d(i) == DigitOf(SubSeq(s, i, i))
               IN  IF Len(s) = 4 THEN d(1) * 1000 + d(2) * 100 + d(3) * 10 + d(4)
                   ELSE IF Len(s) = 2 THEN d(1) * 10 + d(2)
                   ELSE 0]
  ELSE [ok |-> FALSE, n |-> 0]

Date(s) ==
  LET parts == split(s, "-")
      y == NumberOf(parts[1])
      m == NumberOf(parts[2])
      d == NumberOf(parts[3])
  IN  IF /\ Len(s) = 10
         /\ Len(parts) = 3
         /\ Len(parts[1]) = 4 /\ Len(parts[2]) = 2 /\ Len(parts[3]) = 2
         /\ y.ok /\ m.ok /\ d.ok
         /\ m.n \in 1..12 /\ d.n \in 1..31
      THEN [valid |-> TRUE, time |-> y.n * 10000 + m.n * 100 + d.n]
      ELSE [valid |-> FALSE, time |-> 0]

\* a comparison that keeps the cutoff day itself
DateGreaterOrEqual(a, b) == a.valid /\ b.valid /\ a.time >= b.time

DateGreater(a, b) == a.valid /\ b.valid /\ a.time > b.time

\* hours east of UTC of the local time of the process (its TZ setting)
Timezones == {-6, 0, 1}

\* new Date(s) in a process of that time zone.  The ISO date-only form is
\* midnight UTC; the form MM/DD/YYYY is not ISO and is read as midnight local
\* time, which is `timezone` hours before midnight UTC of that day.  `time`
\* is in hours on a scale that keeps the order of the instants.
LocalForm(s) ==
  LET parts == split(s, "/")
      m == NumberOf(parts[1])
      d == NumberOf(parts[2])
      y == NumberOf(parts[3])
  IN  /\ Len(s) = 10
      /\ Len(parts) = 3
      /\ Len(parts[1]) = 2 /\ Len(parts[2]) = 2 /\ Len(parts[3]) = 4
      /\ y.ok /\ m.ok /\ d.ok
      /\ m.n \in 1..12 /\ d.n \in 1..31

DateIn(s, timezone) ==
  LET parts == split(s, "/")
      m == NumberOf(parts[1])
      d == NumberOf(parts[2])
      y == NumberOf(parts[3])
  IN  IF LocalForm(s)
      THEN [valid |-> TRUE, time |-> (y.n * 10000 + m.n * 100 + d.n) * 24 - timezone]
      ELSE [valid |-> Date(s).valid, time |-> Date(s).time * 24]

\* the time zones the process can be in, for the value zone of `localTimezone`:
\* the zone is read once, at the first parse of a local time
ZonesOf(zone) == IF zone = <<>> THEN Timezones ELSE {zone[1]}

\* the filter parses a date in the local form
ReadsLocalZone(statements, accountingPeriodStartDate) ==
  \/ LocalForm(accountingPeriodStartDate)
  \/ \E i \in DOMAIN statements : LocalForm(statements[i].statementDate)

\* a filter whose loop starts at the second statement
filterStatementsByDateSkippingFirst(statements, accountingPeriodStartDate, timezone) ==
  LET cutoffDate == DateIn(accountingPeriodStartDate, timezone)
      keep(statement) == DateGreater(DateIn(statement.statementDate, timezone), cutoffDate)
  IN  IF Len(statements) = 0 THEN <<>> ELSE SelectSeq(Tail(statements), keep)

filterStatementsByDate(statements, accountingPeriodStartDate, timezone) ==
  LET cutoffDate == DateIn(accountingPeriodStartDate, timezone)
      keep(statement) == DateGreater(DateIn(statement.statementDate, timezone), cutoffDate)
  IN  SelectSeq(statements, keep)

(***************************************************************************)
(* Statement validator, filename derivation, storage key.                  *)
(***************************************************************************)
\* a validator that only rejects the empty buffer
validatePdfBufferNonEmpty(buffer) == Len(buffer) # 0

\* TRUE when validatePdfBuffer returns, FALSE when it throws
validatePdfBuffer(buffer) ==
  /\ Len(buffer) # 0
  /\ SubSeq(buffer, 1, IF Len(buffer) < 4 THEN Len(buffer) ELSE 4) = "%PDF"

extractFilename(url) ==
  LET urlObj == URL(url)
      segs   == split(urlObj.pathname, "/")
      last   == segs[Len(segs)]
      name   == IF last = "" THEN "statement" ELSE last
  IN  IF ~urlObj.ok THEN "statement.pdf"
      ELSE IF ~endsWith(toLowerCase(name), ".pdf") THEN name \o ".pdf"
      ELSE name

buildPublicId(carrierName, filename) ==
  LET filenameWithoutExt ==
        IF endsWith(toLowerCase(filename), ".pdf")
        THEN SubSeq(filename, 1, Len(filename) - 4)
        ELSE filename
  IN  "supplier_statements/" \o carrierName \o "/" \o filenameWithoutExt

\* the options uploadPdf sends for the options processStatement passes
\* (carrierName, filename, metadata): overwrite and uniqueFilename default
\* to false
buildUploadOptions(publicId) ==
  [public_id |-> publicId, overwrite |-> FALSE, unique_filename |-> FALSE]

\* what Cloudinary stores after an upload of bytes with these options: an
\* object that exists under the public_id is replaced only when overwrite
\* is set
upload_stream(stored, uploadOptions, bytes) ==
  IF uploadOptions.public_id \in DOMAIN stored /\ ~uploadOptions.overwrite
  THEN stored
  ELSE [id \in DOMAIN stored \cup {uploadOptions.public_id} |->
          IF id = uploadOptions.public_id THEN bytes ELSE stored[id]]

\* what uploadPdf resolves with for the stored content: the etag is the
\* checksum of the content, which the bytes themselves stand for
mapToAttachment(buffer, carrierName, filename) ==
  [public_id |-> buildPublicId(carrierName, filename),
   title     |-> filename,
   etag      |-> buffer]

(***************************************************************************)
(* Inputs of the model: the jobs the HTTP boundary accepts, what the       *)
(* carrier routines return or throw, and what the collaborators answer.    *)
(***************************************************************************)
\* request bodies that pass the validation of POST /api/v1/jobs: job_id,
\* credential.{username,password,login_url} and the period are present; a
\* body is JSON, so a top-level login_url may be there too ("undefined"
\* when it is not)
JobInputs ==
  { [job_id |-> "job-1",
     login_url |-> top,
     credential |-> [username |-> "agent", password |-> "secret", login_url |-> cred],
     accounting_period_start_date |-> "2024-02-01"] :
    top \in {"undefined", "https://portal.abacus.net/login", "https://example.com/login"},
    cred \in {"https://portal.abacus.net/login", "https://Agents.AmeriSafe.com/",
              "https://example.com/login"} }

\* carrier names executeWorkflow is called with
CarrierNames == ImplementedSlugs \cup {"unknown", "com_ufginsurance"}

Statements ==
  { [statementDate |-> "2024-01-15",
     pdfUrl |-> <<"https://files.abacus.net/docs/jan.pdf">>,
     fileBuffer |-> <<>>, filename |-> <<>>],
    [statementDate |-> "2024-02-15",
     pdfUrl |-> <<"https://files.abacus.net/docs/feb.pdf">>,
     fileBuffer |-> <<>>, filename |-> <<>>],
    [statementDate |-> "2024-03-15",
     pdfUrl |-> <<>>,
     fileBuffer |-> <<"%PDF-1.7 march">>, filename |-> <<"mar.pdf">>],
    [statementDate |-> "2024-04-15",
     pdfUrl |-> <<>>,
     fileBuffer |-> <<"PK xlsx">>, filename |-> <<"apr.xlsx">>],
    [statementDate |-> "2024-05-15",
     pdfUrl |-> <<>>, fileBuffer |-> <<>>, filename |-> <<>>] }

RECURSIVE SeqsUpTo(_, _)
SeqsUpTo(S, n) ==
  IF n = 0 THEN {<<>>}
  ELSE LET shorter == SeqsUpTo(S, n - 1)
       IN  shorter \cup {Append(q, x) : q \in shorter, x \in S}

\* a catch block that hands back what the routine had captured so far
RoutineCatchKeepsCaptured(statements, message) ==
  [success |-> FALSE, statements |-> statements, error |-> message]

\* the catch block of a carrier routine; `statements` is what the routine
\* had pushed to its list before the error
RoutineCatch(statements, message) ==
  [success |-> FALSE, statements |-> <<>>, error |-> message]

\* what a carrier routine resolves with
RoutineResults ==
  { [success |-> TRUE, statements |-> sts, error |-> "undefined"] :
      sts \in SeqsUpTo(Statements, MaxStatements) }
  \cup
  { RoutineCatch(sts, e) :
      sts \in SeqsUpTo(Statements, MaxStatements),
      e \in {"Invalid credentials provided", "MFA required",
             "Statement table not found"} }

\* messages of the errors a routine, a module load or the session provider throws
WorkflowErrors == {"Navigation timeout of 30000 ms exceeded", "Login failed"}

\* bytes a statement URL answers with
DownloadedBuffers == {"%PDF-1.4 fetched", "<html>Session expired</html>", ""}

\* messages of the errors downloadPdf and uploadPdf throw
DownloadErrors == {"Failed to download PDF: HTTP 404 Not Found"}

UploadErrors == {"Cloudinary upload failed [500]: Internal Server Error"}

\* messages of the errors the Admin API client throws
AdminApiErrors ==
  {"Failed to update job status: socket hang up",
   "Admin API error: 401 Unauthorized - \"invalid credentials\""}

(***************************************************************************)
(* State.                                                                  *)
(***************************************************************************)
VARIABLES
  pc,           \* the await the job is suspended at
  entry,        \* the exported function that was called: its promise is `promise`
  promise,      \* "none", "pending", "fulfilled" or "rejected"
  job,          \* the request body, <<>> before a call
  carrierName,  \* executeWorkflow's carrierName argument
  carrierSlug,  \* processJobAsync's carrierSlug
  client,       \* the Stagehand client: "undefined", "open" or "closed"
  acquireCalls, \* calls of createStagehandClient
  routineCalls, \* calls of a workflow module's runWorkflow
  closeCalls,   \* calls of client.close
  thrown,       \* the error executeWorkflow's try block threw, <<>> if none
  result,       \* the WorkflowResult executeWorkflow returned, <<>> before
  dispatch,     \* executeWorkflow's promise
  filtered,     \* processStatements' filteredStatements
  idx,          \* index in filtered of the statement being processed
  buffer,       \* processStatement's pdfBuffer
  attachments,  \* processStatements' attachments
  errorLog,     \* console.error of processStatements: [index, statementDate, message]
  fetchCalls,   \* URLs downloadPdf was called with
  uploadCalls,  \* [index, bytes, public_id] of each uploadPdf call
  storage,      \* the bytes Cloudinary stores under each public_id
  localTimezone, \* <<the process's local time zone>>, <<>> before it is read
  pipeline,     \* processStatements' promise
  inboxCalls,   \* [jobId, attachments] of each createInboxStatements call
  inbox,        \* createInboxStatements' promise
  statusCalls,  \* [jobId, update] of each updateJobStatus call
  caught,       \* errors processJobAsync's catch handler received
  captured,     \* errors sent to Sentry.captureException
  http,         \* <<[request, status]>> of POST /api/v1/jobs, <<>> before
  jobs,         \* the jobs in flight together: what each processJobAsync holds
  exitCode      \* <<the code the CLI process exited with>>, <<>> while it runs

dispatcherVars ==
  <<carrierName, client, acquireCalls, routineCalls, closeCalls, thrown, result, dispatch>>

pipelineVars ==
  <<filtered, idx, buffer, attachments, errorLog, fetchCalls, uploadCalls, storage,
    localTimezone, pipeline>>

orchestratorVars ==
  <<carrierSlug, inboxCalls, inbox, statusCalls, caught, captured, http, jobs, exitCode>>

vars == <<pc, entry, promise, job, dispatcherVars, pipelineVars, orchestratorVars>>

\* the jobs submitted while another is in flight
JobIds == {"job-1", "job-2"}

\* a job that was not submitted: no request, no session (client 0), nothing
\* returned or uploaded
NoJob ==
  [pc |-> "none", request |-> <<>>, carrierSlug |-> "undefined", client |-> 0,
   usedClient |-> 0, closed |-> FALSE, result |-> <<>>, attachments |-> <<>>]

Init ==
  /\ pc = "idle"
  /\ entry = "none"
  /\ promise = "none"
  /\ job = <<>>
  /\ carrierName = "undefined"
  /\ carrierSlug = "undefined"
  /\ client = "undefined"
  /\ acquireCalls = 0
  /\ routineCalls = 0
  /\ closeCalls = 0
  /\ thrown = <<>>
  /\ result = <<>>
  /\ dispatch = "none"
  /\ filtered = <<>>
  /\ idx = 0
  /\ buffer = <<>>
  /\ attachments = <<>>
  /\ errorLog = <<>>
  /\ fetchCalls = <<>>
  /\ uploadCalls = <<>>
  /\ storage = <<>>
  /\ localTimezone = <<>>
  /\ pipeline = "none"
  /\ inboxCalls = <<>>
  /\ inbox = "none"
  /\ statusCalls = <<>>
  /\ caught = <<>>
  /\ captured = <<>>
  /\ http = <<>>
  /\ jobs = [id \in JobIds |-> NoJob]
  /\ exitCode = <<>>

(***************************************************************************)
(* Dispatcher: executeWorkflow.                                            *)
(***************************************************************************)
UnknownCarrierResult(j) ==
  [success |-> FALSE, statements |-> <<>>,
   error |-> "Unknown carrier for URL: " \o j.login_url]

NoWorkflowResult(name) ==
  [success |-> FALSE, statements |-> <<>>,
   error |-> "No workflow script implemented for carrier: " \o name]

\* the catch block passing the raw message on
CatchResultRaw(message) ==
  [success |-> FALSE, statements |-> <<>>, error |-> message]

CatchResult(message) ==
  [success |-> FALSE, statements |-> <<>>,
   error |-> "Failed to execute workflow: " \o message]

\* executeWorkflow up to its first await
executeWorkflow(name, j) ==
  /\ carrierName' = name
  /\ dispatch' = IF name = "unknown" THEN "fulfilled" ELSE "pending"
  /\ result' = IF name = "unknown" THEN <<UnknownCarrierResult(j)>> ELSE <<>>
  /\ acquireCalls' = IF name = "unknown" THEN acquireCalls ELSE acquireCalls + 1
  /\ pc' = IF name = "unknown" THEN "dispatched" ELSE "acquiring"
  /\ UNCHANGED <<client, routineCalls, closeCalls, thrown>>

runWorkflow(j) == executeWorkflow(identifyCarrier(j.login_url), j)

\* a finally block that releases without looking at `client`
FinallyAlwaysCloses(c) ==
  /\ closeCalls' = closeCalls + 1
  /\ pc' = "closing"
  /\ dispatch' = "pending"

\* a finally block that calls close without awaiting it
FinallyNotAwaited(c) ==
  /\ closeCalls' = IF c = "open" THEN closeCalls + 1 ELSE closeCalls
  /\ pc' = "dispatched"
  /\ dispatch' = "fulfilled"

\* the finally block, for the value c of `client`: close is awaited when a
\* client exists, otherwise the function returns
Finally(c) ==
  /\ closeCalls' = IF c = "open" THEN closeCalls + 1 ELSE closeCalls
  /\ pc' = IF c = "open" THEN "closing" ELSE "dispatched"
  /\ dispatch' = IF c = "open" THEN "pending" ELSE "fulfilled"

\* the client closed at the end of the try block only: no release on a throw
CatchSkipsFinally(message) ==
  /\ thrown' = <<message>>
  /\ result' = <<CatchResult(message)>>
  /\ closeCalls' = closeCalls
  /\ pc' = "dispatched"
  /\ dispatch' = "fulfilled"

\* the catch block of executeWorkflow, then finally
Catch(message) ==
  /\ thrown' = <<message>>
  /\ result' = <<CatchResult(message)>>
  /\ Finally(client)

\* the exported executeWorkflow called on its own
CallExecuteWorkflow ==
  /\ pc = "idle"
  /\ \E name \in CarrierNames, j \in JobInputs :
       /\ job' = <<j>>
       /\ executeWorkflow(name, j)
  /\ entry' = "executeWorkflow"
  /\ promise' = "pending"
  /\ UNCHANGED <<pipelineVars, orchestratorVars>>

AcquireResolves ==
  /\ pc = "acquiring"
  /\ client' = "open"
  /\ IF carrierName \in ImplementedSlugs
     THEN /\ pc' = "importing"
          /\ UNCHANGED <<result, closeCalls, dispatch>>
     ELSE /\ result' = <<NoWorkflowResult(carrierName)>>
          /\ Finally("open")
  /\ UNCHANGED <<entry, promise, job, carrierName, acquireCalls, routineCalls, thrown,
                 pipelineVars, orchestratorVars>>

AcquireRejects ==
  /\ pc = "acquiring"
  /\ \E message \in WorkflowErrors : Catch(message)
  /\ UNCHANGED <<entry, promise, job, carrierName, client, acquireCalls, routineCalls,
                 pipelineVars, orchestratorVars>>

ImportResolves ==
  /\ pc = "importing"
  /\ routineCalls' = routineCalls + 1
  /\ pc' = "running"
  /\ UNCHANGED <<entry, promise, job, carrierName, client, acquireCalls, closeCalls,
                 thrown, result, dispatch, pipelineVars, orchestratorVars>>

ImportRejects ==
  /\ pc = "importing"
  /\ Catch("Cannot find module")
  /\ UNCHANGED <<entry, promise, job, carrierName, client, acquireCalls, routineCalls,
                 pipelineVars, orchestratorVars>>

RoutineReturns ==
  /\ pc = "running"
  /\ \E r \in RoutineResults : result' = <<r>>
  /\ Finally(client)
  /\ UNCHANGED <<entry, promise, job, carrierName, client, acquireCalls, routineCalls,
                 thrown, pipelineVars, orchestratorVars>>

RoutineThrows ==
  /\ pc = "running"
  /\ \E message \in WorkflowErrors : Catch(message)
  /\ UNCHANGED <<entry, promise, job, carrierName, client, acquireCalls, routineCalls,
                 pipelineVars, orchestratorVars>>

\* a finally block without its inner try/catch: a rejection of
\* client.close() replaces the outcome of executeWorkflow
CloseSettlesUnguarded ==
  /\ pc = "closing"
  /\ \E closed \in BOOLEAN :
       /\ client' = IF closed THEN "closed" ELSE "close failed"
       /\ dispatch' = IF closed THEN "fulfilled" ELSE "rejected"
       /\ result' = IF closed THEN result ELSE <<>>
  /\ pc' = "dispatched"
  /\ UNCHANGED <<entry, promise, job, carrierName, acquireCalls, routineCalls, closeCalls,
                 thrown, pipelineVars, orchestratorVars>>

\* client.close() settles; a rejection is logged and swallowed
CloseSettles ==
  /\ pc = "closing"
  /\ \E closed \in BOOLEAN : client' = IF closed THEN "closed" ELSE "close failed"
  /\ dispatch' = "fulfilled"
  /\ pc' = "dispatched"
  /\ UNCHANGED <<entry, promise, job, carrierName, acquireCalls, routineCalls, closeCalls,
                 thrown, result, pipelineVars, orchestratorVars>>

ExecuteWorkflowReturned ==
  /\ pc = "dispatched"
  /\ entry = "executeWorkflow"
  /\ promise' = dispatch
  /\ pc' = "done"
  /\ UNCHANGED <<entry, job, dispatcherVars, pipelineVars, orchestratorVars>>

(***************************************************************************)
(* Orchestrator: processJobAsync, its status reports and catch handler.    *)
(***************************************************************************)
WorkflowFailedUpdate(res) ==
  [status |-> "failed", failure_reason |-> "carrier_unavailable", notes |-> "undefined"]

SuccessUpdate ==
  [status |-> "success", failure_reason |-> "undefined", notes |-> "undefined"]

\* the catch handler classifying the message it caught
CatchUpdateClassified(error) ==
  [status |-> "failed", failure_reason |-> mapErrorToFailureReason(error), notes |-> error]

CatchUpdate(error) ==
  [status |-> "failed", failure_reason |-> "carrier_unavailable", notes |-> "undefined"]

\* adminApi.updateJobStatus(jobId, update) is called and awaited at `at`
updateJobStatus(update, at) ==
  /\ statusCalls' = Append(statusCalls, [jobId |-> job[1].job_id, update |-> update])
  /\ pc' = at

\* a catch handler that logs and captures but reports nothing
JobCatchOnlyLogs(error) ==
  /\ caught' = Append(caught, error)
  /\ captured' = Append(captured, error)
  /\ http' = http
  /\ jobs' = jobs
  /\ exitCode' = exitCode
  /\ statusCalls' = statusCalls
  /\ pc' = "done"

\* the catch handler of processJobAsync
JobCatch(error) ==
  /\ caught' = Append(caught, error)
  /\ captured' = Append(captured, error)
  /\ http' = http
  /\ jobs' = jobs
  /\ exitCode' = exitCode
  /\ updateJobStatus(CatchUpdate(error), "reporting failure")

\* POST /api/v1/jobs accepted the body and called processJobAsync
processJobAsync ==
  /\ pc = "idle"
  /\ \E j \in JobInputs :
       /\ job' = <<j>>
       /\ carrierSlug' = identifyCarrier(j.credential.login_url)
       /\ runWorkflow(j)
  /\ entry' = "processJobAsync"
  /\ promise' = "pending"
  /\ UNCHANGED <<pipelineVars, inboxCalls, inbox, statusCalls, caught, captured, http, jobs, exitCode>>

(***************************************************************************)
(* Pipeline: processStatements and processStatement.                       *)
(***************************************************************************)
\* a filename taken from the URL whenever the statement has one
FilenameOfUrlFirst(statement) ==
  IF statement.pdfUrl # <<>> /\ statement.pdfUrl[1] # ""
  THEN extractFilename(statement.pdfUrl[1])
  ELSE IF statement.filename # <<>> /\ statement.filename[1] # ""
       THEN statement.filename[1]
       ELSE "statement.pdf"

FilenameOf(statement) ==
  IF statement.fileBuffer # <<>>
  THEN IF statement.filename # <<>> /\ statement.filename[1] # ""
       THEN statement.filename[1]
       ELSE "statement.pdf"
  ELSE extractFilename(statement.pdfUrl[1])

\* the message validatePdfBuffer throws (without the list of byte values)
ValidationError(bytes) ==
  IF Len(bytes) = 0 THEN "PDF buffer is empty or null"
  ELSE "Invalid PDF: expected header \"%PDF\" but got \""
         \o SubSeq(bytes, 1, IF Len(bytes) < 4 THEN Len(bytes) ELSE 4) \o "\""

\* the loop moves on to the next statement, or processStatements returns
NextStatement ==
  /\ idx' = idx + 1
  /\ pc' = IF idx < Len(filtered) THEN "item" ELSE "processed"
  /\ pipeline' = IF idx < Len(filtered) THEN "pending" ELSE "fulfilled"

\* a loop that stops at the first failing statement
ItemFailsAborts(message) ==
  /\ errorLog' = Append(errorLog, [index |-> idx,
                                   statementDate |-> filtered[idx].statementDate,
                                   message |-> message])
  /\ idx' = idx
  /\ pc' = "processed"
  /\ pipeline' = "fulfilled"

\* a loop without its try/catch: the failure rejects processStatements
ItemFailsRethrows(message) ==
  /\ errorLog' = Append(errorLog, [index |-> idx,
                                   statementDate |-> filtered[idx].statementDate,
                                   message |-> message])
  /\ idx' = idx
  /\ pc' = "processed"
  /\ pipeline' = "rejected"

\* the catch block of the loop: log and continue
ItemFails(message) ==
  /\ errorLog' = Append(errorLog, [index |-> idx,
                                   statementDate |-> filtered[idx].statementDate,
                                   message |-> message])
  /\ NextStatement

\* processStatement from validatePdfBuffer on, with the resolved bytes
ValidateAndUpload(bytes) ==
  /\ buffer' = <<bytes>>
  /\ IF validatePdfBuffer(bytes)
     THEN /\ uploadCalls' = Append(uploadCalls,
                [index |-> idx,
                 bytes |-> bytes,
                 public_id |-> buildPublicId(carrierSlug, FilenameOf(filtered[idx]))])
          /\ pc' = "uploading"
          /\ UNCHANGED <<idx, pipeline, errorLog, storage, localTimezone>>
     ELSE /\ ItemFails(ValidationError(bytes))
          /\ UNCHANGED <<uploadCalls, storage, localTimezone>>

\* processStatements up to its first await
\* a pipeline that skips the date filter
processStatementsUnfiltered(statements, accountingPeriodStartDate) ==
  LET filteredStatements == statements
  IN  /\ filtered' = filteredStatements
      /\ idx' = 1
      /\ pc' = IF Len(filteredStatements) = 0 THEN "processed" ELSE "item"
      /\ pipeline' = IF Len(filteredStatements) = 0 THEN "fulfilled" ELSE "pending"
      /\ UNCHANGED <<buffer, attachments, errorLog, fetchCalls, uploadCalls, storage, localTimezone>>

processStatements(statements, accountingPeriodStartDate) ==
  \E timezone \in ZonesOf(localTimezone) :
    LET filteredStatements ==
          filterStatementsByDate(statements, accountingPeriodStartDate, timezone)
    IN  /\ filtered' = filteredStatements
        /\ localTimezone' = IF ReadsLocalZone(statements, accountingPeriodStartDate)
                            THEN <<timezone>> ELSE localTimezone
        /\ idx' = 1
        /\ pc' = IF Len(filteredStatements) = 0 THEN "processed" ELSE "item"
        /\ pipeline' = IF Len(filteredStatements) = 0 THEN "fulfilled" ELSE "pending"
        /\ UNCHANGED <<buffer, attachments, errorLog, fetchCalls, uploadCalls, storage>>

\* processJobAsync resumes with the dispatcher's answer
WorkflowResultReceived ==
  /\ pc = "dispatched"
  /\ entry = "processJobAsync"
  /\ IF dispatch = "rejected"
     THEN /\ JobCatch(thrown[1])
          /\ UNCHANGED <<pipelineVars, inboxCalls, inbox>>
     ELSE IF ~result[1].success
     THEN /\ updateJobStatus(WorkflowFailedUpdate(result[1]), "reporting")
          /\ UNCHANGED <<pipelineVars, inboxCalls, inbox, caught, captured, http, jobs, exitCode>>
     ELSE /\ processStatements(result[1].statements, job[1].accounting_period_start_date)
          /\ UNCHANGED <<inboxCalls, inbox, statusCalls, caught, captured, http, jobs, exitCode>>
  /\ UNCHANGED <<entry, promise, job, dispatcherVars, carrierSlug>>

\* processStatement without its guard: a statement with no content source
\* goes on to downloadPdf(undefined)
StatementStartsUnguarded ==
  /\ pc = "item"
  /\ LET statement == filtered[idx]
     IN  IF statement.fileBuffer # <<>>
         THEN /\ ValidateAndUpload(statement.fileBuffer[1])
              /\ UNCHANGED fetchCalls
         ELSE /\ fetchCalls' = Append(fetchCalls,
                                      IF statement.pdfUrl = <<>> THEN "undefined"
                                      ELSE statement.pdfUrl[1])
              /\ pc' = "fetching"
              /\ UNCHANGED <<idx, pipeline, buffer, errorLog, uploadCalls, storage, localTimezone>>
  /\ UNCHANGED <<entry, promise, job, dispatcherVars, orchestratorVars, filtered, attachments>>

\* processStatement(statement, carrierSlug) up to its first await
StatementStarts ==
  /\ pc = "item"
  /\ LET statement == filtered[idx]
     IN  IF statement.fileBuffer = <<>>
            /\ (statement.pdfUrl = <<>> \/ statement.pdfUrl[1] = "")
         THEN /\ ItemFails("Statement has neither pdfUrl nor fileBuffer")
              /\ UNCHANGED <<buffer, fetchCalls, uploadCalls, storage, localTimezone>>
         ELSE IF statement.fileBuffer # <<>>
         THEN /\ ValidateAndUpload(statement.fileBuffer[1])
              /\ UNCHANGED fetchCalls
         ELSE /\ fetchCalls' = Append(fetchCalls, statement.pdfUrl[1])
              /\ pc' = "fetching"
              /\ UNCHANGED <<idx, pipeline, buffer, errorLog, uploadCalls, storage, localTimezone>>
  /\ UNCHANGED <<entry, promise, job, dispatcherVars, orchestratorVars, filtered, attachments>>

DownloadResolves ==
  /\ pc = "fetching"
  /\ \E bytes \in DownloadedBuffers : ValidateAndUpload(bytes)
  /\ UNCHANGED <<entry, promise, job, dispatcherVars, orchestratorVars, filtered,
                 attachments, fetchCalls>>

DownloadRejects ==
  /\ pc = "fetching"
  /\ \E message \in DownloadErrors : ItemFails(message)
  /\ UNCHANGED <<entry, promise, job, dispatcherVars, orchestratorVars, filtered,
                 attachments, buffer, fetchCalls, uploadCalls, storage, localTimezone>>

UploadResolves ==
  /\ pc = "uploading"
  /\ LET filename == FilenameOf(filtered[idx])
         publicId == buildPublicId(carrierSlug, filename)
     IN  /\ storage' = upload_stream(storage, buildUploadOptions(publicId), buffer[1])
         /\ attachments' = Append(attachments,
              mapToAttachment(storage'[publicId], carrierSlug, filename))
  /\ NextStatement
  /\ UNCHANGED <<entry, promise, job, dispatcherVars, orchestratorVars, filtered,
                 buffer, errorLog, fetchCalls, uploadCalls, localTimezone>>

UploadRejects ==
  /\ pc = "uploading"
  /\ \E message \in UploadErrors : ItemFails(message)
  /\ UNCHANGED <<entry, promise, job, dispatcherVars, orchestratorVars, filtered,
                 attachments, buffer, fetchCalls, uploadCalls, storage, localTimezone>>

(***************************************************************************)
(* Orchestrator, after the pipeline.                                       *)
(***************************************************************************)
\* processJobAsync resumes with the attachments
StatementsProcessed ==
  /\ pc = "processed"
  /\ entry = "processJobAsync"
  /\ IF pipeline = "rejected"
     THEN /\ JobCatch(errorLog[Len(errorLog)].message)
          /\ UNCHANGED <<inboxCalls, inbox>>
     ELSE IF Len(attachments) > 0
     THEN /\ inboxCalls' = Append(inboxCalls,
                                  [jobId |-> job[1].job_id, attachments |-> attachments])
          /\ inbox' = "pending"
          /\ pc' = "creating"
          /\ UNCHANGED <<statusCalls, caught, captured, http, jobs, exitCode>>
     ELSE /\ updateJobStatus(SuccessUpdate, "reporting")
          /\ UNCHANGED <<inboxCalls, inbox, caught, captured, http, jobs, exitCode>>
  /\ UNCHANGED <<entry, promise, job, dispatcherVars, pipelineVars, carrierSlug>>

CreateInboxResolves ==
  /\ pc = "creating"
  /\ inbox' = "fulfilled"
  /\ updateJobStatus(SuccessUpdate, "reporting")
  /\ UNCHANGED <<entry, promise, job, dispatcherVars, pipelineVars, carrierSlug,
                 inboxCalls, caught, captured, http, jobs, exitCode>>

\* the orchestrator going on to the success report after a failed create
CreateInboxRejectsIgnored ==
  /\ pc = "creating"
  /\ inbox' = "rejected"
  /\ updateJobStatus(SuccessUpdate, "reporting")
  /\ UNCHANGED <<entry, promise, job, dispatcherVars, pipelineVars, carrierSlug, inboxCalls,
                 caught, captured, http, jobs, exitCode>>

CreateInboxRejects ==
  /\ pc = "creating"
  /\ inbox' = "rejected"
  /\ \E message \in AdminApiErrors : JobCatch(message)
  /\ UNCHANGED <<entry, promise, job, dispatcherVars, pipelineVars, carrierSlug, inboxCalls>>

\* an updateJobStatus awaited inside the try block settles
StatusResolves ==
  /\ pc = "reporting"
  /\ promise' = "fulfilled"
  /\ pc' = "done"
  /\ UNCHANGED <<entry, job, dispatcherVars, pipelineVars, orchestratorVars>>

StatusRejects ==
  /\ pc = "reporting"
  /\ \E message \in AdminApiErrors : JobCatch(message)
  /\ UNCHANGED <<entry, promise, job, dispatcherVars, pipelineVars, carrierSlug, inboxCalls, inbox>>

\* the updateJobStatus awaited inside the catch handler settles
FailureReportResolves ==
  /\ pc = "reporting failure"
  /\ promise' = "fulfilled"
  /\ pc' = "done"
  /\ UNCHANGED <<entry, job, dispatcherVars, pipelineVars, orchestratorVars>>

FailureReportRejects ==
  /\ pc = "reporting failure"
  /\ promise' = "rejected"
  /\ pc' = "done"
  /\ UNCHANGED <<entry, job, dispatcherVars, pipelineVars, orchestratorVars>>

Next ==
  \/ processJobAsync
  \/ CallExecuteWorkflow
  \/ AcquireResolves
  \/ AcquireRejects
  \/ ImportResolves
  \/ ImportRejects
  \/ RoutineReturns
  \/ RoutineThrows
  \/ CloseSettles
  \/ ExecuteWorkflowReturned
  \/ WorkflowResultReceived
  \/ StatementStarts
  \/ DownloadResolves
  \/ DownloadRejects
  \/ UploadResolves
  \/ UploadRejects
  \/ StatementsProcessed
  \/ CreateInboxResolves
  \/ CreateInboxRejects
  \/ StatusResolves
  \/ StatusRejects
  \/ FailureReportResolves
  \/ FailureReportRejects

Spec == Init /\ [][Next]_vars

(***************************************************************************)
(* filterStatementsByDate called on its own, as its unit tests call it.    *)
(***************************************************************************)
\* statement dates of the calls: before, on and after the cutoffs, a text
\* that new Date cannot parse, and the form MM/DD/YYYY in which the Amerisafe
\* routine returns the date of its statement
FilterDates ==
  {"2023-12-15", "2024-01-15", "2024-02-01", "2024-02-15", "2024-03-15", "not a date",
   "02/01/2024", "03/15/2024"}

FilterStatements ==
  { [statementDate |-> d,
     pdfUrl |-> <<"https://files.abacus.net/docs/statement.pdf">>,
     fileBuffer |-> <<>>, filename |-> <<>>] : d \in FilterDates }

FilterCutoffs == {"2023-01-01", "2024-02-01", "2024-02-15", "2024-04-01"}

\* the caller builds the arguments and calls filterStatementsByDate
FilterCalled ==
  /\ pc = "idle"
  /\ entry' = "filterStatementsByDate"
  /\ \E statements \in SeqsUpTo(FilterStatements, MaxStatements),
        cutoff \in FilterCutoffs :
       /\ result' = <<[success |-> TRUE, statements |-> statements, error |-> "undefined"]>>
       /\ job' = <<[job_id |-> "job-1",
                    login_url |-> "undefined",
                    credential |-> [username |-> "agent", password |-> "secret",
                                    login_url |-> "https://portal.abacus.net/login"],
                    accounting_period_start_date |-> cutoff]>>
  /\ pc' = "filtering"
  /\ UNCHANGED <<promise, carrierName, client, acquireCalls, routineCalls, closeCalls,
                 thrown, dispatch, pipelineVars, orchestratorVars>>

\* Array.prototype.filter returns a new array and leaves the one it reads
FilterReturns ==
  /\ pc \in {"filtering", "filtering again"}
  /\ \E timezone \in ZonesOf(localTimezone) :
       /\ filtered' = filterStatementsByDate(result[1].statements,
                                             job[1].accounting_period_start_date, timezone)
       /\ localTimezone' =
            IF ReadsLocalZone(result[1].statements, job[1].accounting_period_start_date)
            THEN <<timezone>> ELSE localTimezone
  /\ result' = result
  /\ pc' = IF pc = "filtering" THEN "filtered" ELSE "filtered again"
  /\ UNCHANGED <<entry, promise, job, carrierName, client, acquireCalls, routineCalls,
                 closeCalls, thrown, dispatch, idx, buffer, attachments, errorLog,
                 fetchCalls, uploadCalls, storage, pipeline, orchestratorVars>>

\* the caller passes the list it got back to filterStatementsByDate again,
\* with the same cutoff
FilterCalledAgain ==
  /\ pc = "filtered"
  /\ result' = <<[success |-> TRUE, statements |-> filtered, error |-> "undefined"]>>
  /\ pc' = "filtering again"
  /\ UNCHANGED <<entry, promise, job, carrierName, client, acquireCalls, routineCalls,
                 closeCalls, thrown, dispatch, pipelineVars, orchestratorVars>>

FilterNext ==
  \/ FilterCalled
  \/ FilterReturns
  \/ FilterCalledAgain

FilterSpec == Init /\ [][FilterNext]_vars

(***************************************************************************)
(* processStatements called on its own, as its unit tests call it.         *)
(***************************************************************************)
\* the statements of the calls: those above, one dated on the cutoff, two
\* that carry both a buffer and a URL (with and without filename), one with
\* an empty buffer, and what the Amerisafe routine returns for the period
\* 2024-02-01
PipelineStatements ==
  Statements \cup
  { [statementDate |-> "2024-02-01",
     pdfUrl |-> <<"https://files.abacus.net/docs/period.pdf">>,
     fileBuffer |-> <<>>, filename |-> <<>>],
    [statementDate |-> "2024-06-15",
     pdfUrl |-> <<"https://files.abacus.net/docs/june-portal.pdf">>,
     fileBuffer |-> <<"%PDF-1.5 june">>, filename |-> <<"jun.pdf">>],
    [statementDate |-> "2024-07-15",
     pdfUrl |-> <<"https://files.abacus.net/docs/july-portal.pdf">>,
     fileBuffer |-> <<"%PDF-1.5 july">>, filename |-> <<>>],
    [statementDate |-> "2024-08-15",
     pdfUrl |-> <<>>, fileBuffer |-> <<"">>, filename |-> <<>>],
    [statementDate |-> "2024-09-15",
     pdfUrl |-> <<>>, fileBuffer |-> <<"%PDF-1.5 september">>, filename |-> <<>>],
    [statementDate |-> "02/01/2024",
     pdfUrl |-> <<>>,
     fileBuffer |-> <<"%PDF-1.6 amerisafe">>,
     filename |-> <<"Amerisafe_Statement_02/01/2024.pdf">>] }

\* the caller builds the arguments and calls processStatements
CallProcessStatements ==
  /\ pc = "idle"
  /\ entry' = "processStatements"
  /\ promise' = "pending"
  /\ job' = <<[job_id |-> "job-1",
               login_url |-> "undefined",
               credential |-> [username |-> "agent", password |-> "secret",
                               login_url |-> "https://Agents.AmeriSafe.com/"],
               accounting_period_start_date |-> "2024-02-01"]>>
  /\ carrierSlug' = "com_amerisafe"
  /\ \E statements \in SeqsUpTo(PipelineStatements, MaxStatements) :
       /\ result' = <<[success |-> TRUE, statements |-> statements, error |-> "undefined"]>>
       /\ processStatements(statements, "2024-02-01")
  /\ UNCHANGED <<carrierName, client, acquireCalls, routineCalls, closeCalls, thrown,
                 dispatch, inboxCalls, inbox, statusCalls, caught, captured, http, jobs, exitCode>>

\* processStatements returns its attachments to the caller
ProcessStatementsReturned ==
  /\ pc = "processed"
  /\ entry = "processStatements"
  /\ promise' = pipeline
  /\ pc' = "done"
  /\ UNCHANGED <<entry, job, dispatcherVars, pipelineVars, orchestratorVars>>

PipelineNext ==
  \/ CallProcessStatements
  \/ StatementStarts
  \/ DownloadResolves
  \/ DownloadRejects
  \/ UploadResolves
  \/ UploadRejects
  \/ ProcessStatementsReturned

PipelineSpec == Init /\ [][PipelineNext]_vars

(***************************************************************************)
(* A workflow module's runWorkflow called on its own, with what it returns *)
(* for the content it captured from the portal.                            *)
(***************************************************************************)
WorkflowModules ==
  {"net_abacus", "com_amerisafe", "com_apagents", "com_bitco", "com_cmfgroup_access",
   "com_ufginsurance"}

\* what a routine got hold of on the portal: the URL of a document, or its
\* bytes and the name the portal suggests, and the date the portal shows
CapturedContents ==
  { [url |-> "https://files.abacus.net/docs/feb.pdf", bytes |-> "%PDF-1.4 fetched",
     name |-> "February_2024.pdf", date |-> "2024-02-15"],
    [url |-> "https://files.abacus.net/docs/mar.pdf", bytes |-> "PK xlsx",
     name |-> "March_2024.xlsx", date |-> "2024-03-15"] }

IsDigits(s) == \A i \in 1..Len(s) : DigitOf(SubSeq(s, i, i)) >= 0

formatDateForAmerisafe(dateString) ==
  IF /\ Len(dateString) = 10
     /\ SubSeq(dateString, 3, 3) = "/" /\ SubSeq(dateString, 6, 6) = "/"
     /\ IsDigits(SubSeq(dateString, 1, 2)) /\ IsDigits(SubSeq(dateString, 4, 5))
     /\ IsDigits(SubSeq(dateString, 7, 10))
  THEN dateString
  ELSE IF /\ Len(dateString) = 10
          /\ SubSeq(dateString, 5, 5) = "-" /\ SubSeq(dateString, 8, 8) = "-"
          /\ IsDigits(SubSeq(dateString, 1, 4)) /\ IsDigits(SubSeq(dateString, 6, 7))
          /\ IsDigits(SubSeq(dateString, 9, 10))
  THEN SubSeq(dateString, 6, 7) \o "/" \o SubSeq(dateString, 9, 10) \o "/"
         \o SubSeq(dateString, 1, 4)
  ELSE dateString

\* a statement object with the properties the routines write; a property a
\* routine does not write is absent (<<>>)
NoStatementFields ==
  [statementDate |-> "", pdfUrl |-> <<>>, fileBuffer |-> <<>>, filename |-> <<>>,
   pdfBuffer |-> <<>>, pdfFilename |-> <<>>]

\* the statement in the `return { success: true, statements: [...] }` of
\* each module
StatementOf(module, j, content) ==
  LET period == j.accounting_period_start_date
  IN  CASE module = "net_abacus" ->
             [NoStatementFields EXCEPT !.pdfUrl = <<content.url>>,
                                       !.statementDate = period]
        [] module = "com_amerisafe" ->
             [NoStatementFields EXCEPT
                !.fileBuffer = <<content.bytes>>,
                !.filename = <<"Amerisafe_Statement_" \o formatDateForAmerisafe(period)
                                 \o ".pdf">>,
                !.statementDate = formatDateForAmerisafe(period)]
        [] module = "com_apagents" ->
             [NoStatementFields EXCEPT !.fileBuffer = <<content.bytes>>,
                                       !.filename = <<"AP_Statement_" \o content.name>>,
                                       !.statementDate = period]
        [] module = "com_bitco" ->
             [NoStatementFields EXCEPT !.pdfUrl = <<content.url>>,
                                       !.statementDate = content.date]
        [] module = "com_cmfgroup_access" ->
             [NoStatementFields EXCEPT !.pdfBuffer = <<content.bytes>>,
                                       !.pdfFilename = <<content.name>>,
                                       !.statementDate = period]
        [] module = "com_ufginsurance" ->
             [NoStatementFields EXCEPT
                !.pdfBuffer = <<content.bytes>>,
                !.pdfFilename = <<"UFG_Statement_" \o period \o ".pdf">>,
                !.statementDate = period]

\* the module is imported and its runWorkflow called with a session and a job
RunWorkflowCalled ==
  /\ pc = "idle"
  /\ entry' = "runWorkflow"
  /\ promise' = "pending"
  /\ \E module \in WorkflowModules, j \in JobInputs :
       /\ carrierName' = module
       /\ job' = <<j>>
  /\ client' = "open"
  /\ routineCalls' = routineCalls + 1
  /\ pc' = "capturing"
  /\ UNCHANGED <<acquireCalls, closeCalls, thrown, result, dispatch, pipelineVars,
                 orchestratorVars>>

\* the routine reaches its `return { success: true, ... }`
RoutineSucceeds ==
  /\ pc = "capturing"
  /\ \E content \in CapturedContents :
       result' = <<[success |-> TRUE,
                    statements |-> <<StatementOf(carrierName, job[1], content)>>,
                    error |-> "undefined"]>>
  /\ promise' = "fulfilled"
  /\ pc' = "done"
  /\ UNCHANGED <<entry, job, carrierName, client, acquireCalls, routineCalls, closeCalls,
                 thrown, dispatch, pipelineVars, orchestratorVars>>

\* Amerisafe finds no link for the period
RoutineFindsNothing ==
  /\ pc = "capturing"
  /\ carrierName = "com_amerisafe"
  /\ result' = <<[success |-> TRUE, statements |-> <<>>, error |-> "undefined"]>>
  /\ promise' = "fulfilled"
  /\ pc' = "done"
  /\ UNCHANGED <<entry, job, carrierName, client, acquireCalls, routineCalls, closeCalls,
                 thrown, dispatch, pipelineVars, orchestratorVars>>

\* a step of the routine throws and its catch block returns
RoutineCatches ==
  /\ pc = "capturing"
  /\ \E content \in CapturedContents, message \in WorkflowErrors :
       result' = <<RoutineCatch(<<StatementOf(carrierName, job[1], content)>>, message)>>
  /\ promise' = "fulfilled"
  /\ pc' = "done"
  /\ UNCHANGED <<entry, job, carrierName, client, acquireCalls, routineCalls, closeCalls,
                 thrown, dispatch, pipelineVars, orchestratorVars>>

RoutineNext ==
  \/ RunWorkflowCalled
  \/ RoutineSucceeds
  \/ RoutineFindsNothing
  \/ RoutineCatches

RoutineSpec == Init /\ [][RoutineNext]_vars

(***************************************************************************)
(* The carrier identifier alone: identifyCarrier called on one login URL,  *)
(* then on another.                                                        *)
(***************************************************************************)
\* well-formed login URLs by their parts; labels are the hostname's labels
IdentifyParts ==
  {[scheme |-> "https://", labels |-> <<"portal", "abacus", "net">>, port |-> "", path |-> "/login"],
   [scheme |-> "http://", labels |-> <<"abacus", "net">>, port |-> "", path |-> ""],
   [scheme |-> "HTTPS://", labels |-> <<"Agents", "Portal", "ABACUS", "Net">>, port |-> ":8443",
    path |-> "/a/b?next=/login"],
   [scheme |-> "https://", labels |-> <<"advantagepartners", "com">>, port |-> "", path |-> "/login"],
   [scheme |-> "https://", labels |-> <<"www", "advantage", "com">>, port |-> "", path |-> "/login"],
   [scheme |-> "http://", labels |-> <<"Advantage", "COM">>, port |-> ":8080", path |-> "/"],
   [scheme |-> "https://", labels |-> <<"portal", "amerisafe", "com">>, port |-> ":443", path |-> "/login"],
   [scheme |-> "http://", labels |-> <<"AmeriSafe", "COM">>, port |-> "", path |-> ""],
   [scheme |-> "https://", labels |-> <<"agents", "ufginsurance", "com">>, port |-> "", path |-> "/login"],
   [scheme |-> "https://", labels |-> <<"ufginsurance", "com">>, port |-> ":8080", path |-> "/"],
   [scheme |-> "https://", labels |-> <<"net", "abacus", "com">>, port |-> "", path |-> "/login"],
   [scheme |-> "https://", labels |-> <<"example", "com">>, port |-> "", path |-> "/login"],
   [scheme |-> "https://", labels |-> <<"localhost">>, port |-> ":3000", path |-> "/login"]}

RECURSIVE join(_, _)
join(parts, separator) ==
  IF Len(parts) = 0 THEN ""
  ELSE IF Len(parts) = 1 THEN parts[1]
  ELSE parts[1] \o separator \o join(Tail(parts), separator)

\* the strings new URL rejects
MalformedUrls ==
  {"", "not-a-url", "portal.abacus.net/login", "https://", "://abacus.net/login",
   "https://abacus.net:99999/login"}

\* a login URL and, when it is well-formed, the labels of its hostname
IdentifyInputs ==
  {[login_url |-> p.scheme \o join(p.labels, ".") \o p.port \o p.path,
    labels |-> p.labels] : p \in IdentifyParts}
    \cup {[login_url |-> text, labels |-> <<>>] : text \in MalformedUrls}

\* identifyCarrier(loginUrl) is called and returns
IdentifyCalled ==
  /\ pc = "idle"
  /\ \E input \in IdentifyInputs :
       /\ job' = <<input>>
       /\ carrierName' = identifyCarrier(input.login_url)
  /\ entry' = "identifyCarrier"
  /\ pc' = "identified"
  /\ UNCHANGED <<promise, client, acquireCalls, routineCalls, closeCalls, thrown, result,
                 dispatch, pipelineVars, orchestratorVars>>

\* identifyCarrier is called on a second URL and returns
IdentifyCalledAgain ==
  /\ pc = "identified"
  /\ entry = "identifyCarrier"
  /\ \E input \in IdentifyInputs :
       /\ job' = job \o <<input>>
       /\ carrierSlug' = identifyCarrier(input.login_url)
  /\ pc' = "compared"
  /\ UNCHANGED <<entry, promise, dispatcherVars, pipelineVars, inboxCalls, inbox,
                 statusCalls, caught, captured, http, jobs, exitCode>>

IdentifyNext ==
  \/ IdentifyCalled
  \/ IdentifyCalledAgain

IdentifySpec == Init /\ [][IdentifyNext]_vars

(***************************************************************************)
(* The classifier alone: mapErrorToFailureReason called on one message,    *)
(* then on another.                                                        *)
(***************************************************************************)
\* error messages, each with the keywords of the taxonomy it contains
\* (letter case aside)
ClassifyInputs ==
  {[message |-> "Invalid credentials provided", keywords |-> {"invalid credentials"}],
   [message |-> "Login failed - wrong password", keywords |-> {"login failed"}],
   [message |-> "MFA REQUIRED", keywords |-> {"mfa"}],
   [message |-> "Two-factor authentication needed", keywords |-> {"two-factor"}],
   [message |-> "Site unavailable", keywords |-> {"unavailable"}],
   [message |-> "Timeout waiting for response", keywords |-> {"timeout"}],
   [message |-> "Network error occurred", keywords |-> {"network"}],
   [message |-> "Unknown carrier", keywords |-> {"unknown carrier"}],
   [message |-> "Script not found", keywords |-> {"script not found"}],
   [message |-> "Password expired", keywords |-> {"password expired"}],
   [message |-> "Must change password", keywords |-> {"must change password"}],
   [message |-> "Random error", keywords |-> {}],
   [message |-> "", keywords |-> {}],
   [message |-> "Login failed: network timeout", keywords |-> {"login failed", "network", "timeout"}],
   [message |-> "Password expired, MFA required", keywords |-> {"password expired", "mfa"}],
   [message |-> "Failed to execute workflow: Script Not Found (carrier unavailable)",
    keywords |-> {"script not found", "unavailable"}]}

\* mapErrorToFailureReason(errorMessage) is called and returns
ClassifyCalled ==
  /\ pc = "idle"
  /\ \E input \in ClassifyInputs :
       /\ job' = <<input>>
       /\ result' = <<mapErrorToFailureReason(input.message)>>
  /\ entry' = "mapErrorToFailureReason"
  /\ pc' = "classified"
  /\ UNCHANGED <<promise, carrierName, client, acquireCalls, routineCalls, closeCalls,
                 thrown, dispatch, pipelineVars, orchestratorVars>>

\* mapErrorToFailureReason is called on a second message and returns
ClassifyCalledAgain ==
  /\ pc = "classified"
  /\ \E input \in ClassifyInputs :
       /\ job' = job \o <<input>>
       /\ result' = result \o <<mapErrorToFailureReason(input.message)>>
  /\ pc' = "classified twice"
  /\ UNCHANGED <<entry, promise, carrierName, client, acquireCalls, routineCalls,
                 closeCalls, thrown, dispatch, pipelineVars, orchestratorVars>>

ClassifyNext ==
  \/ ClassifyCalled
  \/ ClassifyCalledAgain

ClassifySpec == Init /\ [][ClassifyNext]_vars

(***************************************************************************)
(* The HTTP boundary: the handler of POST /api/v1/jobs behind              *)
(* authenticateApiKey, and the job it starts.                              *)
(***************************************************************************)
\* a JSON value `!value` is true of: an absent field, or the empty string
Falsy(value) == value \in {"undefined", ""}

\* request bodies of authenticated requests; credential is <<>> when the
\* body has none
RequestBodies ==
  {[job_id |-> j.job_id, login_url |-> j.login_url, credential |-> <<j.credential>>,
    accounting_period_start_date |-> j.accounting_period_start_date] : j \in JobInputs}
  \cup
  {[job_id |-> id, login_url |-> "undefined", credential |-> c,
    accounting_period_start_date |-> period] :
     id \in {"job-1", "undefined", ""},
     c \in {<<>>,
            <<[username |-> "agent", password |-> "secret",
               login_url |-> "https://portal.abacus.net/login"]>>,
            <<[username |-> "undefined", password |-> "secret",
               login_url |-> "https://portal.abacus.net/login"]>>,
            <<[username |-> "agent", password |-> "",
               login_url |-> "https://portal.abacus.net/login"]>>,
            <<[username |-> "agent", password |-> "secret", login_url |-> "undefined"]>>},
     period \in {"2024-02-01", "undefined"}}

\* a validation that forgets the accounting period
ValidationErrorOfNoPeriod(body) ==
  IF Falsy(body.job_id) THEN "Missing required field: job_id"
  ELSE IF \/ body.credential = <<>>
          \/ Falsy(body.credential[1].username)
          \/ Falsy(body.credential[1].password)
          \/ Falsy(body.credential[1].login_url)
  THEN "Missing required field: credential (must include username, password, and login_url)"
  ELSE ""

\* the error of the 400 response, "" when the body passes the validation
ValidationErrorOf(body) ==
  IF Falsy(body.job_id) THEN "Missing required field: job_id"
  ELSE IF \/ body.credential = <<>>
          \/ Falsy(body.credential[1].username)
          \/ Falsy(body.credential[1].password)
          \/ Falsy(body.credential[1].login_url)
  THEN "Missing required field: credential (must include username, password, and login_url)"
  ELSE IF Falsy(body.accounting_period_start_date)
  THEN "Missing required field: accounting_period_start_date"
  ELSE ""

\* req.body as the job processJobAsync receives
RequestJob(body) ==
  [job_id |-> body.job_id, login_url |-> body.login_url,
   credential |-> IF body.credential = <<>>
                  THEN [username |-> "undefined", password |-> "undefined",
                        login_url |-> "undefined"]
                  ELSE body.credential[1],
   accounting_period_start_date |-> body.accounting_period_start_date]

\* the handler: validate, answer 400 or 202, then call processJobAsync,
\* which runs up to its first await
PostJobs ==
  /\ pc = "idle"
  /\ \E body \in RequestBodies :
       IF ValidationErrorOf(body) # ""
       THEN /\ http' = <<[request |-> body, status |-> 400, error |-> ValidationErrorOf(body)]>>
            /\ entry' = "POST /api/v1/jobs"
            /\ pc' = "done"
            /\ UNCHANGED <<promise, job, dispatcherVars, carrierSlug>>
       ELSE /\ http' = <<[request |-> body, status |-> 202, error |-> "undefined"]>>
            /\ entry' = "processJobAsync"
            /\ promise' = "pending"
            /\ job' = <<RequestJob(body)>>
            /\ carrierSlug' = identifyCarrier(RequestJob(body).credential.login_url)
            /\ runWorkflow(RequestJob(body))
  /\ UNCHANGED <<pipelineVars, inboxCalls, inbox, statusCalls, caught, captured, jobs, exitCode>>

ServerNext ==
  \/ PostJobs
  \/ AcquireResolves
  \/ AcquireRejects
  \/ ImportResolves
  \/ ImportRejects
  \/ RoutineReturns
  \/ RoutineThrows
  \/ CloseSettles
  \/ WorkflowResultReceived
  \/ StatementStarts
  \/ DownloadResolves
  \/ DownloadRejects
  \/ UploadResolves
  \/ UploadRejects
  \/ StatementsProcessed
  \/ CreateInboxResolves
  \/ CreateInboxRejects
  \/ StatusResolves
  \/ StatusRejects
  \/ FailureReportResolves
  \/ FailureReportRejects

ServerSpec == Init /\ [][ServerNext]_vars

(***************************************************************************)
(* The API key middleware (middleware/auth), called alone as its test      *)
(* calls it.                                                               *)
(***************************************************************************)
ApiKeys == {"test-api-key-123", "wrong-api-key", "admin-api-key", "inbound-api-key"}

\* the configuration: apiKey is API_KEY, adminApi.apiKey is ADMIN_API_KEY;
\* adminApi is <<>> in the configuration the test mocks
Configs ==
  {[apiKey |-> k, adminApi |-> a] :
     k \in ApiKeys, a \in {<<>>} \cup {<<[apiKey |-> ak]>> : ak \in ApiKeys}}

\* req.headers['x-api-key']: "undefined" when the header is absent
ApiKeyHeaders == ApiKeys \cup {"undefined", "", "TEST-API-KEY-123"}

\* what the middleware did: the response (status 0 when none was sent), the
\* calls of next, and the error it threw
authenticateApiKey(apiKey, cfg) ==
  IF apiKey \in {"undefined", ""}
  THEN [status |-> 401, error |-> "Missing X-API-Key header", next |-> 0, thrown |-> <<>>]
  ELSE IF cfg.adminApi = <<>>
  THEN [status |-> 0, error |-> "undefined", next |-> 0,
        thrown |-> <<"TypeError: Cannot read properties of undefined (reading 'apiKey')">>]
  ELSE IF apiKey # cfg.adminApi[1].apiKey
  THEN [status |-> 401, error |-> "Invalid API key", next |-> 0, thrown |-> <<>>]
  ELSE [status |-> 0, error |-> "undefined", next |-> 1, thrown |-> <<>>]

AuthenticateCalled ==
  /\ pc = "idle"
  /\ \E apiKey \in ApiKeyHeaders, cfg \in Configs :
       /\ job' = <<[header |-> apiKey, config |-> cfg]>>
       /\ result' = <<authenticateApiKey(apiKey, cfg)>>
  /\ entry' = "authenticateApiKey"
  /\ pc' = "authenticated"
  /\ UNCHANGED <<promise, carrierName, client, acquireCalls, routineCalls, closeCalls,
                 thrown, dispatch, pipelineVars, orchestratorVars>>

AuthNext == AuthenticateCalled

AuthSpec == Init /\ [][AuthNext]_vars

(***************************************************************************)
(* Jobs in flight together: POST /api/v1/jobs returns after calling        *)
(* processJobAsync without awaiting it, so the awaits of several jobs      *)
(* interleave.  Each job keeps its own locals (jobs[id]); the Cloudinary    *)
(* store, the Admin API and the process's time zone are common to them.    *)
(***************************************************************************)
\* the requests of a job: tenants of the Amerisafe portal asking for a
\* period, and a portal nobody registered
ConcurrentRequests(id) ==
  {[job_id |-> id, login_url |-> url,
    credential |-> [username |-> "agent of " \o id, password |-> "secret", login_url |-> url],
    accounting_period_start_date |-> period] :
     url \in {"https://Agents.AmeriSafe.com/", "https://example.com/login"},
     period \in {"2024-02-01", "2024-03-01"}}

\* the bytes the portal serves to the tenant of a job
TenantBytes(id) == "%PDF-1.4 statement of " \o id

\* what the Amerisafe routine returns for the tenant and the period
AmerisafeReturns(request) ==
  {[success |-> TRUE,
    statements |-> <<StatementOf("com_amerisafe", request,
                                 [url |-> "", bytes |-> TenantBytes(request.job_id),
                                  name |-> "", date |-> ""])>>,
    error |-> "undefined"],
   [success |-> TRUE, statements |-> <<>>, error |-> "undefined"],
   [success |-> FALSE, statements |-> <<>>, error |-> "Login failed"]}

\* sessions are numbered in the order createStagehandClient resolves
NewClient == Cardinality({id \in JobIds : jobs[id].client # 0}) + 1

ConcurrentUnchanged ==
  UNCHANGED <<pc, entry, promise, job, dispatcherVars, filtered, idx, buffer, attachments,
              errorLog, fetchCalls, pipeline, carrierSlug, inbox, caught, captured, http,
              exitCode>>

\* the handler accepts the request of a job and processJobAsync runs up to
\* its first await
JobSubmitted(id) ==
  /\ jobs[id].pc = "none"
  /\ \E request \in ConcurrentRequests(id) :
       jobs' = [jobs EXCEPT ![id] =
                  [@ EXCEPT !.request = <<request>>,
                            !.carrierSlug = identifyCarrier(request.credential.login_url),
                            !.result = IF identifyCarrier(request.login_url) = "unknown"
                                       THEN <<UnknownCarrierResult(request)>> ELSE <<>>,
                            !.pc = IF identifyCarrier(request.login_url) = "unknown"
                                   THEN "dispatched" ELSE "acquiring"]]
  /\ ConcurrentUnchanged
  /\ UNCHANGED <<uploadCalls, storage, localTimezone, inboxCalls, statusCalls>>

\* createStagehandClient settles for the job
JobAcquires(id) ==
  /\ jobs[id].pc = "acquiring"
  /\ \/ jobs' = [jobs EXCEPT ![id] = [@ EXCEPT !.client = NewClient, !.pc = "running"]]
     \/ \E message \in WorkflowErrors :
          jobs' = [jobs EXCEPT ![id] = [@ EXCEPT !.result = <<CatchResult(message)>>,
                                                 !.pc = "dispatched"]]
  /\ ConcurrentUnchanged
  /\ UNCHANGED <<uploadCalls, storage, localTimezone, inboxCalls, statusCalls>>

\* the routine of the job returns: it ran on the session executeWorkflow
\* passed it, the `client` of this call
JobRoutineReturns(id) ==
  /\ jobs[id].pc = "running"
  /\ \E returned \in AmerisafeReturns(jobs[id].request[1]) :
       jobs' = [jobs EXCEPT ![id] = [@ EXCEPT !.usedClient = jobs[id].client,
                                              !.result = <<returned>>,
                                              !.pc = "closing"]]
  /\ ConcurrentUnchanged
  /\ UNCHANGED <<uploadCalls, storage, localTimezone, inboxCalls, statusCalls>>

\* the finally block: client.close() of the job settles
JobCloses(id) ==
  /\ jobs[id].pc = "closing"
  /\ jobs' = [jobs EXCEPT ![id] = [@ EXCEPT !.closed = TRUE, !.pc = "dispatched"]]
  /\ ConcurrentUnchanged
  /\ UNCHANGED <<uploadCalls, storage, localTimezone, inboxCalls, statusCalls>>

\* processJobAsync resumes with the result: a failure is reported, a
\* success is filtered and its first statement goes to uploadPdf
JobResultReceived(id) ==
  /\ jobs[id].pc = "dispatched"
  /\ LET returned == jobs[id].result[1]
         period   == jobs[id].request[1].accounting_period_start_date
     IN  IF ~returned.success
         THEN /\ statusCalls' = Append(statusCalls,
                                       [jobId |-> id, update |-> WorkflowFailedUpdate(returned)])
              /\ jobs' = [jobs EXCEPT ![id] = [@ EXCEPT !.pc = "reporting"]]
              /\ UNCHANGED <<uploadCalls, localTimezone>>
         ELSE \E timezone \in ZonesOf(localTimezone) :
                /\ localTimezone' = IF ReadsLocalZone(returned.statements, period)
                                    THEN <<timezone>> ELSE localTimezone
                /\ IF filterStatementsByDate(returned.statements, period, timezone) = <<>>
                   THEN /\ statusCalls' = Append(statusCalls,
                                                 [jobId |-> id, update |-> SuccessUpdate])
                        /\ jobs' = [jobs EXCEPT ![id] = [@ EXCEPT !.pc = "reporting"]]
                        /\ UNCHANGED uploadCalls
                   ELSE /\ uploadCalls' =
                             Append(uploadCalls,
                                    [index |-> 1,
                                     bytes |-> returned.statements[1].fileBuffer[1],
                                     public_id |-> buildPublicId(jobs[id].carrierSlug,
                                                     returned.statements[1].filename[1])])
                        /\ jobs' = [jobs EXCEPT ![id] = [@ EXCEPT !.pc = "uploading"]]
                        /\ UNCHANGED statusCalls
  /\ ConcurrentUnchanged
  /\ UNCHANGED <<storage, inboxCalls>>

\* uploadPdf of the job resolves and createInboxStatements is called
JobUploadResolves(id) ==
  /\ jobs[id].pc = "uploading"
  /\ LET statement == jobs[id].result[1].statements[1]
         publicId  == buildPublicId(jobs[id].carrierSlug, statement.filename[1])
     IN  /\ storage' = upload_stream(storage, buildUploadOptions(publicId),
                                     statement.fileBuffer[1])
         /\ jobs' = [jobs EXCEPT ![id] =
                       [@ EXCEPT !.attachments =
                                   <<mapToAttachment(storage'[publicId], jobs[id].carrierSlug,
                                                     statement.filename[1])>>,
                                 !.pc = "creating"]]
         /\ inboxCalls' = Append(inboxCalls,
                                 [jobId |-> id, attachments |-> jobs'[id].attachments])
  /\ ConcurrentUnchanged
  /\ UNCHANGED <<uploadCalls, localTimezone, statusCalls>>

\* uploadPdf of the job rejects: processStatement logs the error, no
\* attachment is left and the success is reported
JobUploadRejects(id) ==
  /\ jobs[id].pc = "uploading"
  /\ statusCalls' = Append(statusCalls, [jobId |-> id, update |-> SuccessUpdate])
  /\ jobs' = [jobs EXCEPT ![id] = [@ EXCEPT !.pc = "reporting"]]
  /\ ConcurrentUnchanged
  /\ UNCHANGED <<uploadCalls, storage, localTimezone, inboxCalls>>

\* createInboxStatements of the job rejects and the catch handler reports
JobInboxRejects(id) ==
  /\ jobs[id].pc = "creating"
  /\ \E message \in AdminApiErrors :
       statusCalls' = Append(statusCalls, [jobId |-> id, update |-> CatchUpdate(message)])
  /\ jobs' = [jobs EXCEPT ![id] = [@ EXCEPT !.pc = "reporting"]]
  /\ ConcurrentUnchanged
  /\ UNCHANGED <<uploadCalls, storage, localTimezone, inboxCalls>>

\* createInboxStatements of the job resolves and the success is reported
JobInboxResolves(id) ==
  /\ jobs[id].pc = "creating"
  /\ statusCalls' = Append(statusCalls, [jobId |-> id, update |-> SuccessUpdate])
  /\ jobs' = [jobs EXCEPT ![id] = [@ EXCEPT !.pc = "reporting"]]
  /\ ConcurrentUnchanged
  /\ UNCHANGED <<uploadCalls, storage, localTimezone, inboxCalls>>

\* updateJobStatus of the job resolves
JobStatusResolves(id) ==
  /\ jobs[id].pc = "reporting"
  /\ jobs' = [jobs EXCEPT ![id] = [@ EXCEPT !.pc = "done"]]
  /\ ConcurrentUnchanged
  /\ UNCHANGED <<uploadCalls, storage, localTimezone, inboxCalls, statusCalls>>

ConcurrentNext ==
  \E id \in JobIds :
    \/ JobSubmitted(id)
    \/ JobAcquires(id)
    \/ JobRoutineReturns(id)
    \/ JobCloses(id)
    \/ JobResultReceived(id)
    \/ JobUploadResolves(id)
    \/ JobUploadRejects(id)
    \/ JobInboxResolves(id)
    \/ JobInboxRejects(id)
    \/ JobStatusResolves(id)

ConcurrentSpec == Init /\ [][ConcurrentNext]_vars

(***************************************************************************)
(* The run-workflow CLI (cli/run-workflow.ts): main() from the arguments   *)
(* to the exit of the process.  process.exit ends the process where it is  *)
(* called: nothing after it runs, a pending finally block included.        *)
(***************************************************************************)
\* process.argv.slice(2): "undefined" for an argument that was not given
CliArguments ==
  {[loginUrl |-> url, username |-> user, password |-> password] :
     url \in {"https://portal.abacus.net/login", "https://Agents.AmeriSafe.com/",
              "https://advantagepartners.com/login", "https://example.com/login",
              "undefined"},
     user \in {"myuser", "agent", "undefined"},
     password \in {"mypass", "undefined"}}

\* the first day of the month the CLI runs in
CliPeriods == {"2024-02-01", "2024-03-01", "2024-04-01"}

\* process.exit(code): the process is gone, the session as it was
CliExit(code) ==
  /\ exitCode' = <<code>>
  /\ pc' = "exited"
  /\ UNCHANGED <<client, closeCalls>>

\* main() up to its first await: the arguments are validated, the carrier
\* is identified and the module of the slug is imported
CliMainCalled ==
  /\ pc = "idle"
  /\ entry' = "main"
  /\ promise' = "pending"
  /\ \E args \in CliArguments :
       /\ job' = <<[job_id |-> "cli-test-1700000000000", login_url |-> "undefined",
                    credential |-> [username |-> args.username,
                                    password |-> args.password,
                                    login_url |-> args.loginUrl],
                    accounting_period_start_date |-> "undefined"]>>
       /\ IF "undefined" \in {args.loginUrl, args.username, args.password}
          THEN /\ CliExit(1)
               /\ UNCHANGED carrierSlug
          ELSE /\ carrierSlug' = identifyCarrier(args.loginUrl)
               /\ IF identifyCarrier(args.loginUrl) = "unknown"
                  THEN CliExit(1)
                  ELSE /\ pc' = "cli importing"
                       /\ UNCHANGED <<exitCode, client, closeCalls>>
  /\ UNCHANGED <<carrierName, acquireCalls, routineCalls, thrown, result, dispatch,
                 pipelineVars, inboxCalls, inbox, statusCalls, caught, captured, http, jobs>>

\* the import settles: createStagehandClient is called when the module
\* exists, otherwise the catch block exits with 1
CliImportSettles ==
  /\ pc = "cli importing"
  /\ IF carrierSlug \in WorkflowModules
     THEN /\ carrierName' = carrierSlug
          /\ acquireCalls' = acquireCalls + 1
          /\ pc' = "cli acquiring"
          /\ UNCHANGED <<thrown, exitCode, client, closeCalls>>
     ELSE /\ thrown' = <<"Cannot find module '../src/workflows/" \o carrierSlug \o ".js'">>
          /\ CliExit(1)
          /\ UNCHANGED <<carrierName, acquireCalls>>
  /\ UNCHANGED <<entry, promise, job, routineCalls, result, dispatch, pipelineVars,
                 carrierSlug, inboxCalls, inbox, statusCalls, caught, captured, http, jobs>>

\* createStagehandClient resolves: the job is built and the routine called
CliAcquireResolves ==
  /\ pc = "cli acquiring"
  /\ client' = "open"
  /\ \E period \in CliPeriods :
       job' = <<[job[1] EXCEPT !.accounting_period_start_date = period]>>
  /\ routineCalls' = routineCalls + 1
  /\ pc' = "cli running"
  /\ UNCHANGED <<entry, promise, carrierName, acquireCalls, closeCalls, thrown, result,
                 dispatch, pipelineVars, orchestratorVars>>

\* createStagehandClient rejects: the catch block exits with 1
CliAcquireRejects ==
  /\ pc = "cli acquiring"
  /\ \E message \in WorkflowErrors : thrown' = <<message>>
  /\ CliExit(1)
  /\ UNCHANGED <<entry, promise, job, carrierName, acquireCalls, routineCalls, result,
                 dispatch, pipelineVars, carrierSlug, inboxCalls, inbox, statusCalls,
                 caught, captured, http, jobs>>

\* the routine returns its result: it is printed and the process exits with
\* 0 for a success, 1 for a failure
CliRoutineReturns ==
  /\ pc = "cli running"
  /\ \E returned \in
         {[success |-> TRUE, statements |-> <<StatementOf(carrierName, job[1], content)>>,
           error |-> "undefined"] : content \in CapturedContents}
         \cup {[success |-> TRUE, statements |-> <<>>, error |-> "undefined"]}
         \cup {RoutineCatch(<<>>, message) : message \in WorkflowErrors} :
       /\ result' = <<returned>>
       /\ CliExit(IF returned.success THEN 0 ELSE 1)
  /\ UNCHANGED <<entry, promise, job, carrierName, acquireCalls, routineCalls, thrown,
                 dispatch, pipelineVars, carrierSlug, inboxCalls, inbox, statusCalls,
                 caught, captured, http, jobs>>

\* the routine throws: the catch block prints the error and exits with 1
CliRoutineThrows ==
  /\ pc = "cli running"
  /\ \E message \in WorkflowErrors : thrown' = <<message>>
  /\ CliExit(1)
  /\ UNCHANGED <<entry, promise, job, carrierName, acquireCalls, routineCalls, result,
                 dispatch, pipelineVars, carrierSlug, inboxCalls, inbox, statusCalls,
                 caught, captured, http, jobs>>

CliNext ==
  \/ CliMainCalled
  \/ CliImportSettles
  \/ CliAcquireResolves
  \/ CliAcquireRejects
  \/ CliRoutineReturns
  \/ CliRoutineThrows

CliSpec == Init /\ [][CliNext]_vars

(***************************************************************************)
(* Properties.                                                             *)
(***************************************************************************)
FailedIndexes == {errorLog[k].index : k \in DOMAIN errorLog}

SucceededIndexes == (1..Len(filtered)) \ FailedIndexes

\* the k-th smallest index of the statements that did not fail
NthSucceeded(k) ==
  CHOOSE i \in SucceededIndexes : Cardinality({j \in SucceededIndexes : j < i}) = k - 1

\* the messages a failing statement is logged with
ItemErrors ==
  DownloadErrors \cup UploadErrors
    \cup {"Statement has neither pdfUrl nor fileBuffer"}
    \cup {ValidationError(b) : b \in DownloadedBuffers}
    \cup {ValidationError(st.fileBuffer[1]) : st \in {x \in Statements : x.fileBuffer # <<>>}}

\* C1: when processStatements has returned, its list holds one attachment for
\* each filtered statement that did not fail and none for one that failed, in
\* the order of the statements: the k-th attachment is that of the k-th
\* non-failing statement (its filename, storage key and, for a statement that
\* came with its bytes, those bytes).
C1_FailuresIsolated ==
  pipeline = "fulfilled" =>
    /\ FailedIndexes \subseteq 1..Len(filtered)
    /\ Len(errorLog) = Cardinality(FailedIndexes)
    /\ Len(attachments) = Cardinality(SucceededIndexes)
    /\ \A k \in 1..Len(attachments) :
         LET statement == filtered[NthSucceeded(k)]
         IN  /\ attachments[k].title = FilenameOf(statement)
             /\ attachments[k].public_id = buildPublicId(carrierSlug, FilenameOf(statement))
             /\ statement.fileBuffer # <<>> => attachments[k].etag = statement.fileBuffer[1]

\* the first of two filtered statements failed and the second was delivered
C1_Witness ==
  /\ pipeline = "fulfilled"
  /\ Len(filtered) = 2
  /\ FailedIndexes = {1}
  /\ Len(attachments) = 1

\* C2: updateJobStatus is issued at most once per job, and not before the
\* workflow has failed or the workflow and the pipeline have finished.
C2_StatusAtMostOnce ==
  /\ Len(statusCalls) <= 1
  /\ statusCalls # <<>> =>
       /\ dispatch = "fulfilled"
       /\ result[1].success => pipeline = "fulfilled"

\* C3: when processJobAsync has run to its end, on whatever path, at least
\* one updateJobStatus call was issued for the job, each with status success
\* or failed.
C3_StatusReported ==
  (entry = "processJobAsync" /\ pc = "done") =>
    /\ Len(statusCalls) >= 1
    /\ \A k \in DOMAIN statusCalls :
         /\ statusCalls[k].jobId = job[1].job_id
         /\ statusCalls[k].update.status \in {"success", "failed"}

\* a job whose inbox creation threw has ended, with its report issued
C3_Witness ==
  /\ entry = "processJobAsync"
  /\ pc = "done"
  /\ inboxCalls # <<>>
  /\ caught # <<>>
  /\ Len(statusCalls) = 1

\* C4: once the session is acquired, client.close is called exactly once
\* before executeWorkflow returns, and never more than once; a slug without
\* a routine gives success=false with an error that names the slug.
C4_SessionReleasedOnce ==
  /\ closeCalls <= 1
  /\ (client # "undefined" /\ dispatch = "fulfilled") => closeCalls = 1
  /\ (client # "undefined" /\ dispatch = "fulfilled" /\ carrierName \notin ImplementedSlugs) =>
       /\ ~result[1].success
       /\ routineCalls = 0
       /\ includes(result[1].error, carrierName)

\* the routine threw with the session open and executeWorkflow has returned
C4_Witness ==
  /\ dispatch = "fulfilled"
  /\ routineCalls = 1
  /\ thrown # <<>>
  /\ closeCalls = 1

\* C5: for carrierName 'unknown' executeWorkflow answers success=false with
\* no statements and an error that contains the job's login URL
\* (credential.login_url), and createStagehandClient is not called.
C5_UnknownNamesLoginUrl ==
  (carrierName = "unknown" /\ dispatch = "fulfilled") =>
    /\ ~result[1].success
    /\ result[1].statements = <<>>
    /\ includes(result[1].error, job[1].credential.login_url)
    /\ acquireCalls = 0

\* C6: executeWorkflow never rejects, and when the routine or its loading
\* threw an error with message m it returns success=false, no statements and
\* the error 'Failed to execute workflow: m'.
C6_NoExceptionCrossesDispatcher ==
  /\ dispatch # "rejected"
  /\ (thrown # <<>> /\ dispatch = "fulfilled") =>
       result = <<[success |-> FALSE, statements |-> <<>>,
                   error |-> "Failed to execute workflow: " \o thrown[1]]>>

\* loading the routine's module threw and executeWorkflow has returned
C6_Witness ==
  /\ dispatch = "fulfilled"
  /\ client # "undefined"
  /\ routineCalls = 0
  /\ thrown = <<"Cannot find module">>

\* C7: the promise of processJobAsync never rejects.
C7_JobNeverRejects == entry = "processJobAsync" => promise # "rejected"

\* C8: processStatements never rejects: whatever statements fail, their
\* errors are logged, the promise is fulfilled with the list, and none of
\* them reaches the catch handler of processJobAsync.
C8_NoExceptionEscapesPipeline ==
  /\ pipeline # "rejected"
  /\ pc = "processed" => pipeline = "fulfilled"
  /\ \A k \in DOMAIN caught : caught[k] \notin ItemErrors

\* two statements failed, one at the download and one at the upload, and
\* processStatements returned
C8_Witness ==
  /\ pipeline = "fulfilled"
  /\ Len(errorLog) = 2
  /\ \E k \in DOMAIN errorLog : errorLog[k].message \in DownloadErrors
  /\ \E k \in DOMAIN errorLog : errorLog[k].message \in UploadErrors

\* C9: when the workflow result has success=false, the job is reported
\* failed with failure_reason = mapErrorToFailureReason(result.error), and
\* neither the pipeline nor the inbox creation runs.
C9_FailureReasonClassified ==
  (entry = "processJobAsync" /\ result # <<>> /\ statusCalls # <<>>) =>
    (~result[1].success =>
       /\ statusCalls[1].update.status = "failed"
       /\ statusCalls[1].update.failure_reason = mapErrorToFailureReason(result[1].error)
       /\ pipeline = "none"
       /\ inboxCalls = <<>>)

\* C10: the report the catch handler issues is failed / carrier_unavailable,
\* whatever the message of the error it caught.
C10_CatchAllCarrierUnavailable ==
  caught # <<>> =>
    LET update == statusCalls[Len(statusCalls)].update
    IN  /\ update.status = "failed"
        /\ update.failure_reason = "carrier_unavailable"

\* the handler caught an error whose message classifies as something else
C10_Witness ==
  /\ caught # <<>>
  /\ mapErrorToFailureReason(caught[1]) # "carrier_unavailable"
  /\ statusCalls[Len(statusCalls)].update.failure_reason = "carrier_unavailable"

(***************************************************************************)
(* C11: when the routine returns success = true with no statements, the    *)
(* orchestrator reports status success carrying a 'no new statements'      *)
(* note, and no fetch, upload or inbox-create call occurs for the job.     *)
(***************************************************************************)
RoutineReturnedNoStatements ==
  /\ entry = "processJobAsync"
  /\ routineCalls > 0
  /\ dispatch = "fulfilled"
  /\ result # <<>>
  /\ result[1].success
  /\ result[1].statements = <<>>

C11_NoStatementsSuccessWithNote ==
  RoutineReturnedNoStatements =>
    /\ fetchCalls = <<>> /\ uploadCalls = <<>> /\ inboxCalls = <<>>
    /\ pc \in {"reporting", "reporting failure", "done"} =>
         /\ statusCalls # <<>>
         /\ statusCalls[1].update.status = "success"
         /\ includes(toLowerCase(statusCalls[1].update.notes), "no new statements")

\* the half of C11 the orchestrator keeps: no collaborator is called
C11_NoCallsWithoutStatements ==
  RoutineReturnedNoStatements =>
    fetchCalls = <<>> /\ uploadCalls = <<>> /\ inboxCalls = <<>>

(***************************************************************************)
(* C12: inbox entries are created if and only if the pipeline returned at  *)
(* least one attachment: createInboxStatements is called at most once per  *)
(* job, only with a non-empty attachment list equal to the pipeline's      *)
(* output and keyed by the job's job_id, and a success status is reported  *)
(* only after that call has returned successfully.                         *)
(***************************************************************************)
\* processJobAsync has resumed after `await processStatements(...)`
PipelineReturned ==
  /\ pipeline = "fulfilled"
  /\ pc \in {"creating", "reporting", "reporting failure", "done"}

C12_InboxIffAttachments ==
  /\ Len(inboxCalls) <= 1
  /\ inboxCalls # <<>> =>
       /\ pipeline = "fulfilled"
       /\ inboxCalls[1].attachments # <<>>
       /\ inboxCalls[1].attachments = attachments
       /\ inboxCalls[1].jobId = job[1].job_id
  /\ PipelineReturned => (inboxCalls # <<>> <=> attachments # <<>>)
  /\ \A k \in DOMAIN statusCalls :
       (statusCalls[k].update.status = "success" /\ attachments # <<>>) =>
         inbox = "fulfilled"

C12_Witness ==
  /\ pc = "done"
  /\ Len(attachments) = 2
  /\ Len(inboxCalls) = 1
  /\ inbox = "fulfilled"
  /\ statusCalls[1].update.status = "success"

\* the create call failed and no success was reported
C12_WitnessCreateFailed ==
  /\ inbox = "rejected"
  /\ statusCalls # <<>>
  /\ statusCalls[1].update.status = "failed"

(***************************************************************************)
(* C13: filterStatementsByDate returns, in input order and without         *)
(* mutating its input, exactly those statements whose statementDate parses *)
(* as a date strictly greater than the cutoff: a statement dated on the    *)
(* cutoff is excluded, a statement with an unparseable date is excluded,   *)
(* and an empty input yields an empty output.                              *)
(***************************************************************************)
FilterInput == result[1].statements

FilterCutoff == job[1].accounting_period_start_date

\* the calendar day a date text names, whichever of the two forms it has
CalendarDay(s) ==
  IF Date(s).valid THEN [valid |-> TRUE, day |-> Date(s).time]
  ELSE [valid |-> DateIn(s, 0).valid, day |-> DateIn(s, 0).time \div 24]

\* indexes of the input whose date parses and lies strictly after the cutoff
LaterIndexes ==
  {i \in 1..Len(FilterInput) :
     /\ CalendarDay(FilterInput[i].statementDate).valid
     /\ CalendarDay(FilterCutoff).valid
     /\ CalendarDay(FilterInput[i].statementDate).day > CalendarDay(FilterCutoff).day}

NthLater(k) ==
  CHOOSE i \in LaterIndexes : Cardinality({j \in LaterIndexes : j < i}) = k - 1

FilterReturnedLaterOnes ==
  (entry = "filterStatementsByDate" /\ pc = "filtered") =>
    /\ Len(filtered) = Cardinality(LaterIndexes)
    /\ \A k \in 1..Len(filtered) : filtered[k] = FilterInput[NthLater(k)]
    /\ \A k \in 1..Len(filtered) :
         /\ CalendarDay(filtered[k].statementDate).day # CalendarDay(FilterCutoff).day
         /\ filtered[k].statementDate # "not a date"
    /\ FilterInput = <<>> => filtered = <<>>

FilterLeavesInput ==
  (entry = "filterStatementsByDate" /\ pc = "filtering") => result' = result

C13_FilterStrictlyAfterCutoff ==
  [][FilterReturnedLaterOnes' /\ FilterLeavesInput]_vars

\* what holds of the filter: the property above for inputs whose dates are
\* all in the ISO form or unparseable
IsoInput ==
  \A i \in DOMAIN FilterInput :
    Date(FilterInput[i].statementDate).valid \/ FilterInput[i].statementDate = "not a date"

C13_IsoFilterStrictlyAfterCutoff ==
  [][(IsoInput' => FilterReturnedLaterOnes') /\ FilterLeavesInput]_vars

\* a statement dated 02/01/2024 is returned for the cutoff 2024-02-01
C13_OnCutoffKept ==
  /\ entry = "filterStatementsByDate"
  /\ pc = "filtered"
  /\ FilterCutoff = "2024-02-01"
  /\ \E k \in DOMAIN filtered : filtered[k].statementDate = "02/01/2024"

\* two later statements are returned in the order they came
C13_WitnessOrder ==
  /\ entry = "filterStatementsByDate"
  /\ pc = "filtered"
  /\ Len(filtered) = 2
  /\ filtered[1].statementDate = "2024-03-15"
  /\ filtered[2].statementDate = "2024-02-15"

(***************************************************************************)
(* C14: processStatements touches only statements that pass the date       *)
(* filter: no fetch and no upload is ever performed for a statement dated  *)
(* on or before the cutoff, and when no statement passes the filter it     *)
(* returns [] without any fetch or upload (statements dated 2024-01-15 and *)
(* 2024-02-15 with cutoff 2024-02-01 produce exactly one upload, for       *)
(* 2024-02-15).                                                            *)
(***************************************************************************)
\* the statements processStatements was called with, <<>> before the call
PipelineInput ==
  IF entry \in {"processJobAsync", "processStatements"} /\ pipeline # "none"
  THEN result[1].statements
  ELSE <<>>

OnOrBeforeCutoff(statement) ==
  CalendarDay(statement.statementDate).day
    <= CalendarDay(job[1].accounting_period_start_date).day

C14_OnlyFilteredTouched ==
  pipeline # "none" =>
    /\ \A k \in DOMAIN fetchCalls :
         \A i \in DOMAIN PipelineInput :
           OnOrBeforeCutoff(PipelineInput[i]) => PipelineInput[i].pdfUrl # <<fetchCalls[k]>>
    /\ \A k \in DOMAIN uploadCalls :
         ~OnOrBeforeCutoff(filtered[uploadCalls[k].index])
    /\ Len(uploadCalls) <=
         Cardinality({i \in DOMAIN PipelineInput : ~OnOrBeforeCutoff(PipelineInput[i])})
    /\ (\A i \in DOMAIN PipelineInput : OnOrBeforeCutoff(PipelineInput[i])) =>
         /\ pipeline = "fulfilled"
         /\ attachments = <<>> /\ fetchCalls = <<>> /\ uploadCalls = <<>>
    /\ ( /\ Len(PipelineInput) = 2
         /\ PipelineInput[1].statementDate = "2024-01-15"
         /\ PipelineInput[2].statementDate = "2024-02-15"
         /\ pipeline = "fulfilled"
         /\ errorLog = <<>> ) =>
         /\ fetchCalls = <<"https://files.abacus.net/docs/feb.pdf">>
         /\ Len(uploadCalls) = 1
         /\ filtered[uploadCalls[1].index].statementDate = "2024-02-15"
         /\ Len(attachments) = 1

\* scenario A ran to its end
C14_Witness ==
  /\ pipeline = "fulfilled"
  /\ Len(PipelineInput) = 2
  /\ PipelineInput[1].statementDate = "2024-01-15"
  /\ PipelineInput[2].statementDate = "2024-02-15"
  /\ Len(uploadCalls) = 1
  /\ Len(attachments) = 1

\* only statements dated on or before the cutoff: nothing is touched
C14_WitnessNonePasses ==
  /\ pipeline = "fulfilled"
  /\ Len(PipelineInput) = 2
  /\ PipelineInput[1].statementDate = "2024-02-01"
  /\ PipelineInput[2].statementDate = "2024-01-15"
  /\ fetchCalls = <<>> /\ uploadCalls = <<>>

\* the Amerisafe statement of the cutoff day itself was uploaded
C14_OnCutoffUploaded ==
  /\ pipeline = "fulfilled"
  /\ Len(PipelineInput) = 1
  /\ PipelineInput[1].statementDate = "02/01/2024"
  /\ Len(uploadCalls) = 1
  /\ Len(attachments) = 1

\* what holds of the pipeline: only statements the filter returned are
\* fetched or uploaded
C14_OnlyFilterOutputTouched ==
  pipeline # "none" =>
    /\ \E timezone \in Timezones :
         filtered = filterStatementsByDate(PipelineInput,
                                           job[1].accounting_period_start_date, timezone)
    /\ \A k \in DOMAIN uploadCalls : uploadCalls[k].index \in DOMAIN filtered
    /\ \A k \in DOMAIN fetchCalls :
         \E i \in DOMAIN filtered : filtered[i].pdfUrl = <<fetchCalls[k]>>
    /\ filtered = <<>> => (attachments = <<>> /\ fetchCalls = <<>> /\ uploadCalls = <<>>)

(***************************************************************************)
(* C15: only validated bytes are uploaded: processStatement fails without  *)
(* calling the uploader when the resolved buffer is empty or its first 4   *)
(* bytes are not '%PDF' (the error reports the offending header), and      *)
(* never fails validation for a buffer that starts with '%PDF'.            *)
(***************************************************************************)
StartsWithPdfMagic(bytes) == Len(bytes) >= 4 /\ SubSeq(bytes, 1, 4) = "%PDF"

HeaderOf(bytes) == IF Len(bytes) < 4 THEN bytes ELSE SubSeq(bytes, 1, 4)

IsValidationMessage(message) ==
  \/ message = "PDF buffer is empty or null"
  \/ startsWith(message, "Invalid PDF: expected header \"%PDF\" but got \"")

\* every upload call so far carried bytes that start with the magic, and no
\* statement that failed validation has an upload call
UploadedBytesValid ==
  /\ \A k \in DOMAIN uploadCalls : StartsWithPdfMagic(uploadCalls[k].bytes)
  /\ \A e \in DOMAIN errorLog :
       IsValidationMessage(errorLog[e].message) =>
         /\ \A k \in DOMAIN uploadCalls : uploadCalls[k].index # errorLog[e].index
         /\ errorLog[e].message # "Invalid PDF: expected header \"%PDF\" but got \"%PDF\""
  /\ \A e \in DOMAIN errorLog :
       filtered[errorLog[e].index].fileBuffer # <<>> =>
         LET bytes == filtered[errorLog[e].index].fileBuffer[1]
         IN  IsValidationMessage(errorLog[e].message) <=> ~StartsWithPdfMagic(bytes)

\* the step in which processStatement has its bytes: an upload call with
\* exactly these bytes, or a validation failure naming their header
ValidationStep ==
  /\ (pc # "uploading" /\ pc' = "uploading") =>
       /\ StartsWithPdfMagic(buffer'[1])
       /\ Len(uploadCalls') = Len(uploadCalls) + 1
       /\ uploadCalls'[Len(uploadCalls')].bytes = buffer'[1]
  /\ (Len(errorLog') > Len(errorLog)
        /\ IsValidationMessage(errorLog'[Len(errorLog')].message)) =>
       /\ uploadCalls' = uploadCalls
       /\ ~StartsWithPdfMagic(buffer'[1])
       /\ errorLog'[Len(errorLog')].message =
            IF buffer'[1] = "" THEN "PDF buffer is empty or null"
            ELSE "Invalid PDF: expected header \"%PDF\" but got \""
                   \o HeaderOf(buffer'[1]) \o "\""

C15_WitnessEmpty ==
  /\ pipeline = "fulfilled"
  /\ Len(errorLog) = 2
  /\ errorLog[1].message = "PDF buffer is empty or null"
  /\ errorLog[2].message = "Invalid PDF: expected header \"%PDF\" but got \"<htm\""
  /\ uploadCalls = <<>>

(***************************************************************************)
(* C16: when a statement carries both fileBuffer and pdfUrl,               *)
(* processStatement uploads the buffer under the statement's filename      *)
(* (default 'statement.pdf' when absent) and never calls the fetch         *)
(* collaborator (downloadPdf) nor derives a filename from the URL.         *)
(***************************************************************************)
CarriesBoth(statement) == statement.fileBuffer # <<>> /\ statement.pdfUrl # <<>>

StatementFilename(statement) ==
  IF statement.filename # <<>> THEN statement.filename[1] ELSE "statement.pdf"

\* the storage key of a file name ending in .pdf
KeyFor(name) ==
  "supplier_statements/" \o carrierSlug \o "/" \o SubSeq(name, 1, Len(name) - 4)

\* processStatement has returned or thrown for filtered[i]
StatementDone(i) == i < idx \/ pipeline = "fulfilled"

C16_BufferPreferredOverUrl ==
  \A i \in DOMAIN filtered :
    CarriesBoth(filtered[i]) =>
      /\ \A k \in DOMAIN fetchCalls : fetchCalls[k] # filtered[i].pdfUrl[1]
      /\ \A k \in DOMAIN uploadCalls :
           uploadCalls[k].index = i =>
             /\ uploadCalls[k].bytes = filtered[i].fileBuffer[1]
             /\ uploadCalls[k].public_id = KeyFor(StatementFilename(filtered[i]))
      /\ StatementDone(i) => \E k \in DOMAIN uploadCalls : uploadCalls[k].index = i
      /\ (StatementDone(i) /\ i \in SucceededIndexes) =>
           \E a \in DOMAIN attachments :
             /\ attachments[a].title = StatementFilename(filtered[i])
             /\ attachments[a].public_id = KeyFor(StatementFilename(filtered[i]))

\* a statement with both sources and a filename, and one with both and no
\* filename, were uploaded from their buffers
C16_Witness ==
  /\ pipeline = "fulfilled"
  /\ Len(filtered) = 2
  /\ CarriesBoth(filtered[1]) /\ filtered[1].filename = <<"jun.pdf">>
  /\ CarriesBoth(filtered[2]) /\ filtered[2].filename = <<>>
  /\ Len(attachments) = 2
  /\ attachments[1].title = "jun.pdf"
  /\ attachments[2].title = "statement.pdf"
  /\ fetchCalls = <<>>

(***************************************************************************)
(* C17: a statement that carries neither pdfUrl nor fileBuffer is an       *)
(* error: processStatement fails with 'Statement has neither pdfUrl nor    *)
(* fileBuffer' and performs no fetch and no upload.                        *)
(***************************************************************************)
CarriesNeither(statement) ==
  /\ statement.fileBuffer = <<>>
  /\ statement.pdfUrl = <<>> \/ statement.pdfUrl = <<"">>

\* processStatement is entered for a statement with no content source
NeitherStep ==
  (pc = "item" /\ CarriesNeither(filtered[idx])) =>
    /\ fetchCalls' = fetchCalls
    /\ uploadCalls' = uploadCalls
    /\ errorLog' = Append(errorLog,
         [index |-> idx,
          statementDate |-> filtered[idx].statementDate,
          message |-> "Statement has neither pdfUrl nor fileBuffer"])

NeitherIsError ==
  \A i \in DOMAIN filtered :
    CarriesNeither(filtered[i]) =>
      /\ \A k \in DOMAIN uploadCalls : uploadCalls[k].index # i
      /\ StatementDone(i) =>
           \E e \in DOMAIN errorLog :
             /\ errorLog[e].index = i
             /\ errorLog[e].message = "Statement has neither pdfUrl nor fileBuffer"

C17_NeitherSourceIsError == [][NeitherStep /\ NeitherIsError']_vars

\* a statement with no content source went through the pipeline alone
C17_Witness ==
  /\ pipeline = "fulfilled"
  /\ Len(filtered) = 1
  /\ CarriesNeither(filtered[1])
  /\ Len(errorLog) = 1
  /\ errorLog[1].message = "Statement has neither pdfUrl nor fileBuffer"
  /\ fetchCalls = <<>> /\ uploadCalls = <<>> /\ attachments = <<>>

(***************************************************************************)
(* C18: every statement that any carrier routine returns in a success =    *)
(* true result carries at least one content source that the pipeline       *)
(* reads, i.e. a non-empty pdfUrl or a fileBuffer (not only differently    *)
(* named fields such as pdfBuffer/pdfFilename, and not an empty-string     *)
(* pdfUrl).                                                                *)
(***************************************************************************)
HasReadableSource(statement) ==
  \/ statement.fileBuffer # <<>>
  \/ statement.pdfUrl # <<>> /\ statement.pdfUrl[1] # ""

C18_RoutineStatementsReadable ==
  (entry = "runWorkflow" /\ result # <<>> /\ result[1].success) =>
    \A i \in DOMAIN result[1].statements : HasReadableSource(result[1].statements[i])

\* the UFG routine returned its statement, with pdfBuffer and pdfFilename only
C18_UfgStatementUnreadable ==
  /\ entry = "runWorkflow"
  /\ carrierName = "com_ufginsurance"
  /\ result # <<>>
  /\ result[1].success
  /\ result[1].statements[1].pdfBuffer # <<>>
  /\ ~HasReadableSource(result[1].statements[1])

\* what holds: the routines that write pdfUrl or fileBuffer return readable
\* statements
C18_OtherRoutinesReadable ==
  (entry = "runWorkflow" /\ result # <<>> /\ result[1].success
     /\ carrierName \in {"net_abacus", "com_amerisafe", "com_apagents", "com_bitco"}) =>
    \A i \in DOMAIN result[1].statements : HasReadableSource(result[1].statements[i])

(***************************************************************************)
(* C19: every WorkflowResult with success = false has an empty statements  *)
(* list: this holds for every result executeWorkflow returns and for every *)
(* result a carrier routine returns, including routines that had already   *)
(* captured some statements before failing.                                *)
(***************************************************************************)
C19_FailureHasNoStatements ==
  (result # <<>> /\ ~result[1].success) => result[1].statements = <<>>

\* executeWorkflow handed on the failure result of a routine
C19_Witness ==
  /\ entry = "processJobAsync"
  /\ pc = "dispatched"
  /\ routineCalls = 1
  /\ thrown = <<>>
  /\ ~result[1].success
  /\ result[1].error = "MFA required"

\* executeWorkflow converted an error the routine threw
C19_WitnessConverted ==
  /\ pc = "dispatched"
  /\ routineCalls = 1
  /\ thrown # <<>>
  /\ ~result[1].success
  /\ result[1].statements = <<>>

(***************************************************************************)
(* C20: a syntactically well-formed login URL whose derived slug is not in *)
(* the known-carrier set yields 'unknown' from identify, and the           *)
(* dispatcher never invokes a routine for a slug that is not registered.   *)
(***************************************************************************)
KnownCarrierSlugs == {"net_abacus", "com_advantage", "com_advantagepartners", "com_amerisafe"}

\* a URL that parses and whose last two host labels name no known carrier
WellFormedUnregistered(loginUrl) ==
  /\ URL(loginUrl).ok
  /\ extractReverseDomainSlug(toLowerCase(URL(loginUrl).hostname)) \notin KnownCarrierSlugs

\* the step in which processJobAsync identifies the carrier, for the
\* dispatcher from job.login_url and for itself from the credential
IdentifyStep ==
  (pc = "idle" /\ entry' = "processJobAsync") =>
    /\ WellFormedUnregistered(job'[1].login_url) => carrierName' = "unknown"
    /\ WellFormedUnregistered(job'[1].credential.login_url) => carrierSlug' = "unknown"

\* a routine was called for a registered slug only, and the name and the
\* job of a call never change
RegisteredOnly ==
  entry \in {"processJobAsync", "executeWorkflow"} =>
    /\ routineCalls > 0 =>
         carrierName \in {"net_abacus", "com_advantagepartners", "com_amerisafe"}
    /\ carrierName = "unknown" => routineCalls = 0

NameAndJobKept ==
  pc # "idle" => (carrierName' = carrierName /\ carrierSlug' = carrierSlug /\ job' = job)

C20_WitnessNoCase ==
  /\ entry = "executeWorkflow"
  /\ carrierName = "com_ufginsurance"
  /\ pc = "dispatched"
  /\ ~result[1].success
  /\ routineCalls = 0

(***************************************************************************)
(* C21: identifyCarrier depends only on the lower-cased last two labels of *)
(* the hostname: two URLs whose hostnames share them get the same slug,    *)
(* whatever the subdomains, path, scheme or port, and for a registered     *)
(* carrier the slug is "{tld}_{domain}".                                   *)
(***************************************************************************)
LastTwoLabels(input) ==
  LET n == Len(input.labels)
  IN  <<toLowerCase(input.labels[n - 1]), toLowerCase(input.labels[n])>>

TldDomain(input) == LastTwoLabels(input)[2] \o "_" \o LastTwoLabels(input)[1]

SameLastTwoLabels ==
  /\ Len(job[1].labels) >= 2
  /\ Len(job[2].labels) >= 2
  /\ LastTwoLabels(job[1]) = LastTwoLabels(job[2])

C21_WitnessAlias ==
  /\ pc = "compared"
  /\ entry = "identifyCarrier"
  /\ job[1].login_url = "https://www.advantage.com/login"
  /\ carrierName = "com_advantagepartners"

(***************************************************************************)
(* C22: identifyCarrier never throws: for a string new URL rejects (the    *)
(* empty string and a string without a scheme among them) it returns       *)
(* "unknown", and for every string it returns a carrier name.              *)
(***************************************************************************)
C22_MalformedIsUnknown ==
  (entry = "identifyCarrier" /\ pc \in {"identified", "compared"}) =>
    /\ job[1].login_url \in MalformedUrls => carrierName = "unknown"
    /\ carrierName \in {"net_abacus", "com_advantagepartners", "com_amerisafe", "unknown"}
    /\ pc = "compared" =>
         /\ job[2].login_url \in MalformedUrls => carrierSlug = "unknown"
         /\ carrierSlug \in {"net_abacus", "com_advantagepartners", "com_amerisafe", "unknown"}

\* identifyCarrier returned for the empty string
C22_Witness ==
  /\ entry = "identifyCarrier"
  /\ pc = "identified"
  /\ job[1].login_url = ""
  /\ carrierName = "unknown"

\* identifyCarrier returned for a string without a scheme
C22_WitnessNoScheme ==
  /\ entry = "identifyCarrier"
  /\ pc = "compared"
  /\ job[2].login_url = "portal.abacus.net/login"
  /\ carrierSlug = "unknown"

(***************************************************************************)
(* C23: the set of carrier routines is open: for every workflow module     *)
(* under src/workflows there is a login URL that identifyCarrier maps to   *)
(* the module's slug (agents.ufginsurance.com to com_ufginsurance), and     *)
(* executeWorkflow with that slug calls the module's runWorkflow.          *)
(***************************************************************************)
\* a login URL on a workflow module's domain is identified as that module
C23_EveryModuleIdentified ==
  (entry = "identifyCarrier" /\ pc = "identified" /\ Len(job[1].labels) >= 2
     /\ TldDomain(job[1]) \in WorkflowModules) =>
    carrierName = TldDomain(job[1])

\* executeWorkflow called with a workflow module's slug runs the module,
\* unless the session could not be acquired
C23_EveryModuleDispatched ==
  (entry = "executeWorkflow" /\ carrierName \in WorkflowModules
     /\ dispatch = "fulfilled" /\ thrown = <<>>) =>
    routineCalls = 1

\* the modules the dispatcher's switch names are identified and run
C23_SwitchModulesDispatched ==
  /\ (entry = "identifyCarrier" /\ pc = "identified" /\ Len(job[1].labels) >= 2
        /\ TldDomain(job[1]) \in WorkflowModules \cap ImplementedSlugs) =>
       carrierName = TldDomain(job[1])
  /\ (entry = "executeWorkflow" /\ carrierName \in WorkflowModules \cap ImplementedSlugs
        /\ dispatch = "fulfilled" /\ thrown = <<>>) =>
       routineCalls = 1

(***************************************************************************)
(* C24: uploads are keyed deterministically and overwrite: the public_id   *)
(* is "supplier_statements/{carrierSlug}/{filename without extension}", a  *)
(* function of carrier slug and filename only, and an upload under a       *)
(* public_id that already exists replaces the stored object: no second or  *)
(* versioned object appears.                                               *)
(***************************************************************************)
\* the file name processStatement gives the statement
ResolvedFilename(statement) ==
  IF statement.fileBuffer # <<>> THEN StatementFilename(statement)
  ELSE extractFilename(statement.pdfUrl[1])

\* the file name without a trailing .pdf in any letter case
WithoutExtension(name) ==
  IF Len(name) >= 4 /\ toLowerCase(SubSeq(name, Len(name) - 3, Len(name))) = ".pdf"
  THEN SubSeq(name, 1, Len(name) - 4)
  ELSE name

\* this step is an upload that Cloudinary answered
UploadAnswered == pc = "uploading" /\ Len(attachments') = Len(attachments) + 1

LastUpload == uploadCalls[Len(uploadCalls)]

UploadKeyed ==
  /\ LastUpload.public_id =
       "supplier_statements/" \o carrierSlug \o "/"
         \o WithoutExtension(ResolvedFilename(filtered[idx]))
  /\ attachments'[Len(attachments')].public_id = LastUpload.public_id
  /\ DOMAIN storage' = DOMAIN storage \cup {LastUpload.public_id}
  /\ \A id \in DOMAIN storage \ {LastUpload.public_id} : storage'[id] = storage[id]

C24_UploadReplacesStoredObject ==
  [][UploadAnswered =>
       /\ UploadKeyed
       /\ storage'[LastUpload.public_id] = LastUpload.bytes]_vars

\* what holds instead: the key is as claimed, and the first object stored
\* under a key stays
C24_FirstUploadStays ==
  [][UploadAnswered =>
       /\ UploadKeyed
       /\ storage'[LastUpload.public_id] =
            IF LastUpload.public_id \in DOMAIN storage
            THEN storage[LastUpload.public_id]
            ELSE LastUpload.bytes]_vars

\* a second document was uploaded under a key in use and the first stayed
C24_SecondUploadDropped ==
  /\ pipeline = "fulfilled"
  /\ Len(attachments) = 2
  /\ uploadCalls[1].public_id = uploadCalls[2].public_id
  /\ uploadCalls[1].bytes # uploadCalls[2].bytes
  /\ storage[uploadCalls[2].public_id] = uploadCalls[1].bytes

(***************************************************************************)
(* C25: processStatements introduces no duplicates: the output holds at    *)
(* most one attachment per filtered statement, and no two attachments of   *)
(* one batch have the same public_id, also when several statements of the  *)
(* batch resolve to the same filename.                                     *)
(***************************************************************************)
AtMostOnePerStatement ==
  /\ Len(attachments) <= Len(filtered)
  /\ Len(attachments) = Cardinality(SucceededIndexes)

C25_NoDuplicateAttachments ==
  (entry = "processStatements" /\ pipeline = "fulfilled") =>
    /\ AtMostOnePerStatement
    /\ \A a, b \in DOMAIN attachments :
         a # b => attachments[a].public_id # attachments[b].public_id

\* what holds instead: one attachment per statement that did not fail
C25_AtMostOnePerStatement ==
  (entry = "processStatements" /\ pipeline = "fulfilled") => AtMostOnePerStatement

\* two different statements without a filename gave two attachments that
\* name one stored object
C25_TwoAttachmentsOneObject ==
  /\ entry = "processStatements"
  /\ pipeline = "fulfilled"
  /\ Len(filtered) = 2
  /\ filtered[1].statementDate = "2024-07-15"
  /\ filtered[2].statementDate = "2024-09-15"
  /\ Len(attachments) = 2
  /\ attachments[1].public_id = attachments[2].public_id

(***************************************************************************)
(* C26: if acquiring the browser session fails, executeWorkflow goes       *)
(* directly to its end: it returns a failure result (success false, no     *)
(* statements), does not throw, runs no routine and performs no release.   *)
(***************************************************************************)
\* this step is createStagehandClient rejecting
AcquireFails == pc = "acquiring" /\ thrown' # <<>>

\* executeWorkflow is past a failed acquisition
AcquireFailed == acquireCalls > 0 /\ pc # "acquiring" /\ client = "undefined"

NoSessionOutcome ==
  /\ dispatch = "fulfilled"
  /\ Len(result) = 1
  /\ ~result[1].success
  /\ result[1].statements = <<>>
  /\ result[1].error = "Failed to execute workflow: " \o thrown[1]
  /\ routineCalls = 0
  /\ closeCalls = 0

C26_AcquireFailureGoesToDone ==
  [][/\ AcquireFails => (pc' = "dispatched" /\ client' = "undefined" /\ NoSessionOutcome')
     /\ AcquireFailed' => NoSessionOutcome']_vars

\* executeWorkflow has returned after createStagehandClient rejected
C26_Witness ==
  /\ entry = "executeWorkflow"
  /\ pc = "done"
  /\ promise = "fulfilled"
  /\ client = "undefined"
  /\ acquireCalls = 1
  /\ thrown # <<>>
  /\ closeCalls = 0

(***************************************************************************)
(* C27: a failure while releasing the browser session never changes the    *)
(* outcome: if client.close throws, executeWorkflow still returns exactly  *)
(* the result determined before the release (the routine's result or the   *)
(* converted failure) and does not throw.                                  *)
(***************************************************************************)
\* the result executeWorkflow determined before it awaits client.close()
ResultDetermined ==
  /\ Len(result) = 1
  /\ IF thrown # <<>>
     THEN result[1] = CatchResult(thrown[1])
     ELSE IF routineCalls = 0
     THEN result[1] = NoWorkflowResult(carrierName)
     ELSE result[1] \in RoutineResults

\* this step is client.close() settling
CloseStep == pc = "closing"

C27_CloseFailureKeepsResult ==
  [][/\ CloseStep =>
          /\ ResultDetermined
          /\ result' = result
          /\ thrown' = thrown
          /\ dispatch' = "fulfilled"
          /\ pc' = "dispatched"
     /\ client' = "close failed" => (dispatch' = "fulfilled" /\ ResultDetermined')
     /\ (client' = "close failed" /\ entry' = "executeWorkflow" /\ pc' = "done") =>
          promise' = "fulfilled"]_vars

\* client.close() threw after the routine had returned statements, and
\* executeWorkflow returned them
C27_Witness ==
  /\ entry = "executeWorkflow"
  /\ pc = "done"
  /\ client = "close failed"
  /\ promise = "fulfilled"
  /\ result[1].success
  /\ Len(result[1].statements) > 0

\* client.close() threw after the routine had thrown
C27_WitnessAfterThrow ==
  /\ client = "close failed"
  /\ dispatch = "fulfilled"
  /\ routineCalls = 1
  /\ thrown # <<>>
  /\ result[1] = CatchResult(thrown[1])

(***************************************************************************)
(* C28: mapErrorToFailureReason is a total, case-insensitive function from *)
(* messages to the five reasons: a message containing "invalid             *)
(* credentials" or "login failed" gives invalid_credentials, "mfa" or      *)
(* "two-factor" requires_mfa, "unavailable", "timeout" or "network"        *)
(* carrier_unavailable, "unknown carrier" or "script not found"            *)
(* missing_instruction, "password expired" or "must change password"       *)
(* password_change, and a message with none of them carrier_unavailable.   *)
(***************************************************************************)
\* the keyword sets in the order the claim lists them
KeywordSets ==
  <<[keywords |-> {"invalid credentials", "login failed"}, reason |-> "invalid_credentials"],
    [keywords |-> {"mfa", "two-factor"}, reason |-> "requires_mfa"],
    [keywords |-> {"unavailable", "timeout", "network"}, reason |-> "carrier_unavailable"],
    [keywords |-> {"unknown carrier", "script not found"}, reason |-> "missing_instruction"],
    [keywords |-> {"password expired", "must change password"}, reason |-> "password_change"]>>

Classified == entry = "mapErrorToFailureReason" /\ pc \in {"classified", "classified twice"}

\* C28 as claimed: every keyword a message contains decides its reason
C28_EveryKeywordDecides ==
  Classified =>
    \A c \in DOMAIN job :
      /\ result[c] \in FailureReasons
      /\ \A k \in DOMAIN KeywordSets :
           job[c].keywords \cap KeywordSets[k].keywords # {} =>
             result[c] = KeywordSets[k].reason
      /\ job[c].keywords = {} => result[c] = "carrier_unavailable"

\* C28 amended: the first keyword set, in the order listed, of which the
\* message contains a keyword decides its reason
C28_FirstKeywordSetDecides ==
  Classified =>
    \A c \in DOMAIN job :
      /\ result[c] \in FailureReasons
      /\ \A k \in DOMAIN KeywordSets :
           (/\ job[c].keywords \cap KeywordSets[k].keywords # {}
            /\ \A h \in 1..(k - 1) : job[c].keywords \cap KeywordSets[h].keywords = {}) =>
             result[c] = KeywordSets[k].reason
      /\ job[c].keywords = {} => result[c] = "carrier_unavailable"

\* an upper-case message with one keyword and a message with keywords of
\* two sets were classified
C28_Witness ==
  /\ Classified
  /\ Len(job) = 2
  /\ job[1].message = "MFA REQUIRED"
  /\ result[1] = "requires_mfa"
  /\ job[2].message = "Password expired, MFA required"
  /\ result[2] = "requires_mfa"

\* a message without keyword was classified
C28_WitnessDefault ==
  /\ Classified
  /\ job[1].message = "Random error"
  /\ result[1] = "carrier_unavailable"

(***************************************************************************)
(* C29: filterStatementsByDate is idempotent for a fixed cutoff: filtering *)
(* an already filtered list with the same cutoff returns the same list.    *)
(***************************************************************************)
\* the second call has returned: result holds the list it was given, which
\* is the list the first call returned
FilteredAgain == entry = "filterStatementsByDate" /\ pc = "filtered again"

C29_FilterIdempotent == FilteredAgain => filtered = result[1].statements

\* a list with a date in the local form, kept west of UTC, was filtered
\* twice
C29_Witness ==
  /\ FilteredAgain
  /\ localTimezone = <<-6>>
  /\ FilterCutoff = "2024-02-01"
  /\ Len(filtered) = 2
  /\ filtered[1].statementDate = "02/01/2024"
  /\ filtered[2].statementDate = "2024-03-15"

\* a list the first call emptied was filtered again
C29_WitnessEmpty ==
  /\ FilteredAgain
  /\ FilterCutoff = "2024-04-01"
  /\ filtered = <<>>

(***************************************************************************)
(* C30: a request to POST /api/v1/jobs that misses job_id,                 *)
(* credential.username, credential.password, credential.login_url or       *)
(* accounting_period_start_date is answered 400 and no processing of a job *)
(* starts; every other authenticated request is answered 202 before any    *)
(* step of its job runs, and its job is then processed exactly once.       *)
(***************************************************************************)
\* a field the request does not carry, or carries empty
Absent(field) == field = "undefined" \/ field = ""

MissesRequiredField(body) ==
  \/ Absent(body.job_id)
  \/ body.credential = <<>>
  \/ \E c \in {body.credential[i] : i \in DOMAIN body.credential} :
       Absent(c.username) \/ Absent(c.password) \/ Absent(c.login_url)
  \/ Absent(body.accounting_period_start_date)

\* some step of a job has run
ProcessingStarted ==
  \/ promise # "none"
  \/ job # <<>>
  \/ acquireCalls > 0
  \/ statusCalls # <<>>
  \/ inboxCalls # <<>>
  \/ uploadCalls # <<>>

Rejected ==
  /\ http[1].status = 400
  /\ ~ProcessingStarted
  /\ pc = "done"

Accepted ==
  /\ http[1].status = 202
  /\ promise # "none"
  /\ Len(job) = 1
  /\ job[1].job_id = http[1].request.job_id
  /\ job[1].credential = http[1].request.credential[1]
  /\ job[1].accounting_period_start_date = http[1].request.accounting_period_start_date
  /\ acquireCalls <= 1

Answered ==
  /\ ProcessingStarted => http # <<>>
  /\ http # <<>> => IF MissesRequiredField(http[1].request) THEN Rejected ELSE Accepted

\* the one call of processJobAsync is the only one: the request, the job and
\* a settled promise stay as they are, and every status update is of the job
ProcessedOnce ==
  /\ http # <<>> => http' = http /\ job' = job
  /\ promise \in {"fulfilled", "rejected"} => promise' = promise
  /\ \A i \in DOMAIN statusCalls' : statusCalls'[i].jobId = http'[1].request.job_id

C30_SubmissionAnswered == []Answered /\ [][ProcessedOnce]_vars

\* a complete request was answered 202 and its job ran to a reported end
C30_Witness ==
  /\ http # <<>>
  /\ http[1].status = 202
  /\ ~MissesRequiredField(http[1].request)
  /\ promise = "fulfilled"
  /\ Len(statusCalls) = 1

\* a request with everything but the accounting period was answered 400
C30_WitnessRejected ==
  /\ http # <<>>
  /\ http[1].status = 400
  /\ http[1].request.job_id = "job-1"
  /\ http[1].request.credential # <<>>
  /\ http[1].request.credential[1].username = "agent"
  /\ http[1].request.credential[1].password = "secret"
  /\ http[1].request.credential[1].login_url = "https://portal.abacus.net/login"
  /\ http[1].request.accounting_period_start_date = "undefined"
  /\ ~ProcessingStarted

(***************************************************************************)
(* C31: authenticateApiKey calls next() exactly when the X-API-Key header  *)
(* equals config.apiKey, the inbound API key; a missing header is answered *)
(* 401 'Missing X-API-Key header', any other value 401 'Invalid API key',  *)
(* and a rejection never calls next().                                     *)
(***************************************************************************)
Authenticated == entry = "authenticateApiKey" /\ pc = "authenticated"

C31_NextIffInboundKey ==
  Authenticated =>
    /\ result[1].next = 1 <=> job[1].header = job[1].config.apiKey
    /\ job[1].header \in {"undefined", ""} =>
          result[1].status = 401 /\ result[1].error = "Missing X-API-Key header"
    /\ job[1].header \notin {"undefined", "", job[1].config.apiKey} =>
          result[1].status = 401 /\ result[1].error = "Invalid API key"
    /\ result[1].status = 401 => result[1].next = 0

(***************************************************************************)
(* C32: jobs in flight together are independent: each job acquires and     *)
(* releases a session of its own, no session serves two jobs, and what a   *)
(* job delivers (its result, its attachments, its status) is what it       *)
(* delivers when it runs first, under every interleaving with the steps of *)
(* the other jobs.                                                         *)
(***************************************************************************)
\* a job works on the session it acquired, and two jobs never hold the same
OwnSessions ==
  /\ \A id \in JobIds :
       /\ jobs[id].usedClient \in {0, jobs[id].client}
       /\ jobs[id].closed => jobs[id].client # 0
  /\ \A a, b \in JobIds : a # b /\ jobs[a].client # 0 => jobs[a].client # jobs[b].client

\* every attachment of a job describes the bytes its own routine returned,
\* which is what the job uploads when no other job ran before it
OwnAttachments ==
  \A id \in JobIds : \A i \in DOMAIN jobs[id].attachments :
    jobs[id].attachments[i].etag = TenantBytes(id)

C32_JobsIndependent == OwnSessions /\ OwnAttachments

\* the part about the sessions alone
C32_SessionsNotShared == OwnSessions

\* two tenants of a carrier asked for the same period and the job that
\* uploaded second delivers the other tenant's statement
C32_ForeignAttachment ==
  /\ jobs["job-1"].pc = "done" /\ jobs["job-2"].pc = "done"
  /\ jobs["job-1"].attachments # <<>> /\ jobs["job-2"].attachments # <<>>
  /\ jobs["job-1"].attachments[1].etag = TenantBytes("job-2")
  /\ jobs["job-2"].attachments[1].etag = TenantBytes("job-2")

(***************************************************************************)
(* C33: a statement delivered as a non-empty fileBuffer with a filename is *)
(* uploaded whatever its file type: processStatement hands an Excel or CSV *)
(* buffer (filename ending in .xlsx) to uploadPdf just as it hands a PDF   *)
(* buffer.                                                                 *)
(***************************************************************************)
\* processStatement starts on a statement that carries bytes and a name
BufferWithFilename ==
  /\ pc = "item"
  /\ filtered[idx].fileBuffer # <<>>
  /\ filtered[idx].filename # <<>>
  /\ Len(filtered[idx].fileBuffer[1]) > 0

\* the step ends in the call of uploadPdf with the bytes of the statement
HandedToUpload ==
  /\ pc' = "uploading"
  /\ Len(uploadCalls') = Len(uploadCalls) + 1
  /\ uploadCalls'[Len(uploadCalls')].bytes = filtered[idx].fileBuffer[1]

C33_AnyFileTypeUploaded == [][BufferWithFilename => HandedToUpload]_vars

\* the same for the buffers that start with the PDF header
C33_PdfBuffersUploaded ==
  [][BufferWithFilename /\ SubSeq(filtered[idx].fileBuffer[1], 1, 4) = "%PDF"
       => HandedToUpload]_vars

(***************************************************************************)
(* C34: a statement for the requested period reaches the inbox: when the   *)
(* workflow returns a retrievable, well-formed statement whose             *)
(* statementDate equals the job's accounting_period_start_date, the        *)
(* pipeline uploads it and an inbox entry is created for it.               *)
(***************************************************************************)
\* the pipeline went for the content of the statement: it called the fetch
\* collaborator with its URL, or uploadPdf with its bytes
TakenUp(statement) ==
  IF statement.fileBuffer # <<>>
  THEN \E u \in DOMAIN uploadCalls : uploadCalls[u].bytes = statement.fileBuffer[1]
  ELSE \E f \in DOMAIN fetchCalls : fetchCalls[f] = statement.pdfUrl[1]

\* a statement dated the first day of the requested period, with content
OfThePeriod(statement) ==
  /\ statement.statementDate = job[1].accounting_period_start_date
  /\ \/ statement.fileBuffer # <<>> /\ validatePdfBuffer(statement.fileBuffer[1])
     \/ statement.fileBuffer = <<>> /\ statement.pdfUrl # <<>> /\ statement.pdfUrl[1] # ""

C34_PeriodStatementTakenUp ==
  entry = "processStatements" /\ pipeline = "fulfilled" =>
    \A i \in DOMAIN result[1].statements :
      OfThePeriod(result[1].statements[i]) => TakenUp(result[1].statements[i])

\* the statements dated after the first day of the period are taken up
C34_LaterStatementsTakenUp ==
  entry = "processStatements" /\ pipeline = "fulfilled" =>
    \A i \in DOMAIN result[1].statements :
      LET statement == result[1].statements[i]
      IN  /\ statement.statementDate \in {"2024-02-15", "2024-03-15", "2024-06-15"}
          /\ (statement.fileBuffer # <<>> \/ statement.pdfUrl # <<>>)
          /\ (statement.fileBuffer # <<>> => validatePdfBuffer(statement.fileBuffer[1]))
          => TakenUp(statement)

(***************************************************************************)
(* C35: stored statements of tenants are isolated: an attachment delivered *)
(* for one job is never replaced by the upload of another job, and two     *)
(* jobs of different tenants for the same carrier and period (hence the    *)
(* same generated filename) do not write to the same storage public_id.    *)
(***************************************************************************)
\* the uploads of different tenants go to different keys
KeysNotShared ==
  \A u, v \in DOMAIN uploadCalls :
    uploadCalls[u].bytes # uploadCalls[v].bytes =>
      uploadCalls[u].public_id # uploadCalls[v].public_id

\* what is stored under a key stays what it is
StoredObjectsStay == \A id \in DOMAIN storage : storage'[id] = storage[id]

C35_TenantsIsolated == []KeysNotShared /\ [][StoredObjectsStay]_vars

\* the part about replacement alone
C35_NeverReplaced == [][StoredObjectsStay]_vars

(***************************************************************************)
(* C36: the orchestrator and the dispatcher identify the carrier from the  *)
(* same login URL, job.credential.login_url: the slug the workflow is      *)
(* dispatched on equals the slug the uploads are keyed with, a job of a    *)
(* registered carrier is never rejected as 'Unknown carrier', and the      *)
(* pipeline never runs with the slug 'unknown'.                            *)
(***************************************************************************)
C36_SameCarrierBothSides ==
  entry = "processJobAsync" =>
    /\ carrierName = carrierSlug
    /\ carrierSlug # "unknown" /\ result # <<>> =>
          ~startsWith(result[1].error, "Unknown carrier")
    /\ pipeline # "none" => carrierSlug # "unknown"

(***************************************************************************)
(* C37: a job whose login URL identifies no registered carrier is always   *)
(* reported with status failed and failure_reason missing_instruction,     *)
(* whatever text the URL contains.                                         *)
(***************************************************************************)
C37_UnknownCarrierMissingInstruction ==
  entry = "processJobAsync" /\ carrierName = "unknown" /\ statusCalls # <<>> =>
    /\ statusCalls[1].update.status = "failed"
    /\ statusCalls[1].update.failure_reason = "missing_instruction"

\* the status of such a job alone
C37_UnknownCarrierFailed ==
  entry = "processJobAsync" /\ carrierName = "unknown" /\ statusCalls # <<>> =>
    statusCalls[1].update.status = "failed"

(***************************************************************************)
(* C38: when createInboxStatements fails after the attachments were        *)
(* uploaded, the job is never reported as success: exactly one status      *)
(* report is made for it, with status failed.                              *)
(***************************************************************************)
C38_InboxFailureReportedFailed ==
  entry = "processJobAsync" /\ inbox = "rejected" =>
    /\ Len(attachments) > 0
    /\ Len(statusCalls) = 1
    /\ statusCalls[1].jobId = job[1].job_id
    /\ statusCalls[1].update.status = "failed"

\* the job ended after a failed create of the inbox entries of one upload
C38_Witness ==
  /\ entry = "processJobAsync"
  /\ inbox = "rejected"
  /\ pc = "done"
  /\ promise = "fulfilled"
  /\ Len(attachments) = 1
  /\ Len(inboxCalls) = 1

(***************************************************************************)
(* C39: within a job the browser session is released before anything       *)
(* downstream happens: client.close has settled (completed, or failed and  *)
(* been logged) before the first statement fetch or upload of the pipeline *)
(* starts and before any status report or inbox-create call is issued.     *)
(***************************************************************************)
\* a call past the dispatcher was made
DownstreamStarted ==
  \/ fetchCalls # <<>>
  \/ uploadCalls # <<>>
  \/ inboxCalls # <<>>
  \/ statusCalls # <<>>
  \/ pipeline # "none"

C39_SessionReleasedBeforeDownstream ==
  entry = "processJobAsync" /\ DownstreamStarted =>
    /\ client # "open"
    /\ client \in {"closed", "close failed"} <=> closeCalls = 1
    /\ client = "undefined" => closeCalls = 0 /\ routineCalls = 0

\* statements were uploaded after the session of the job was closed
C39_Witness ==
  /\ entry = "processJobAsync"
  /\ client = "closed"
  /\ closeCalls = 1
  /\ Len(uploadCalls) = 1
  /\ Len(fetchCalls) = 1
  /\ pc = "uploading"

\* the close failed and the job went on to its report
C39_WitnessCloseFailed ==
  /\ entry = "processJobAsync"
  /\ client = "close failed"
  /\ statusCalls # <<>>

(***************************************************************************)
(* C40: the run-workflow CLI releases its browser session on every path:   *)
(* once createStagehandClient has resolved, client.close is called before  *)
(* the process exits, whether the workflow returns success (exit code 0),  *)
(* returns a failure (exit code 1) or throws (exit code 1).                *)
(***************************************************************************)
C40_CliClosesBeforeExit ==
  entry = "main" /\ exitCode # <<>> /\ routineCalls > 0 =>
    /\ closeCalls = 1
    /\ client # "open"
    /\ exitCode[1] = IF thrown = <<>> /\ result[1].success THEN 0 ELSE 1

\* the exit codes alone
C40_ExitCodes ==
  entry = "main" /\ exitCode # <<>> /\ routineCalls > 0 =>
    exitCode[1] = IF thrown = <<>> /\ result[1].success THEN 0 ELSE 1
====
